---- MODULE Spec2Model ----
(***************************************************************************)
(* OpenGL context lifecycle and thread affinity of sf::priv::GlContext     *)
(* (src/SFML/Window/GlContext.cpp).                                        *)
(*                                                                         *)
(* State: the per-thread CurrentContext records, the per-thread optional   *)
(* TransientContext, the atomic identity counter, the recursive mutex of   *)
(* the GraphicsContext, the process-wide list of unshared GL objects, and  *)
(* the contexts that exist.  A context object is named by its identity;    *)
(* a pointer to a context is the identity of the pointee, 0 for nullptr.   *)
(*                                                                         *)
(* The platform back-ends (makeCurrent, the native context destruction)    *)
(* and GraphicsContext are not part of GlContext.cpp; they are modelled    *)
(* from their contract: makeCurrent is thread-affine and may fail, a       *)
(* failed makeCurrent changes nothing at the platform level.               *)
(***************************************************************************)
EXTENDS Integers, Sequences, FiniteSets, TLC

\* Threads of the process
Threads == {"T1", "T2"}
NoThread == "none"

\* Cap on the identities issued (the counter itself is a 64-bit value)
MaxId == 3
\* Cap on the transient scopes the callers keep open at one time; the scopes
\* that are open at one time are those of one thread
MaxScopes == 2

\* Cap on the identities issued while the list of unshared GL objects is in use
MaxRegistryId == 2

\* Cap on the vertex count of a vertex buffer
MaxVertexCount == 4

Ids == 1..MaxId

\* The objects (std::shared_ptr<void>) that callers pass: h1 and h2 are
\* registered, h0 is an object that is never registered
Handles == {"h0", "h1", "h2"}
Registrable == {"h1", "h2"}

VARIABLES
    currentContext,     \* thread -> [id, ptr, transientCount]  (CurrentContext::get())
    transientContext,   \* thread -> TransientContext::get().has_value()
    platCur,            \* thread -> context current at the platform level, 0 if none
    mutex,              \* graphicsContext.getMutex(): [owner, depth]
    atomicId,           \* next identity to issue
    created,            \* identities in order of construction (history)
    alive,              \* contexts constructed and not yet destroyed
    shared,             \* identity of the shared context of the GraphicsContext, 0 before it exists
    unsharedGlObjects,  \* list of [contextId, object]
    listOf,             \* gen: the list the static weak_ptr was last set to (lists are numbered),
                        \* held: context -> the list its Impl holds a shared_ptr to, 0 if none
    pc,                 \* thread -> position inside create / the destructor
    obj,                \* thread -> context the running create / destructor works on
    scopes,             \* thread -> acquireTransientContext calls not yet released by the caller
    run,                \* thread -> the run of acquire calls followed by release calls in progress
    last,               \* the operation that completed last, with its result
    window,             \* the sf::Window: context is the context it owns (0 for none),
                        \* displayed whether its last display() called the context's display()
    calls,              \* the announced create calls in the order they obtained the lock: [t, id]
    slowScope,          \* thread -> which of its open transient scopes took the slow path and
                        \* activated the shared context (counted from the outermost, 0 if none)
    registry,           \* owner: the thread that holds Impl::getUnsharedGlObjectsMutex(),
                        \* at: thread -> the call it is inside that uses the list of unshared
                        \* objects or the weak_ptr to it, with its accesses
    call                \* the call of a function on values under way, with its arguments and result

vars == <<currentContext, transientContext, platCur, mutex, atomicId, created, alive,
          shared, unsharedGlObjects, listOf, pc, obj, scopes, run, last,
          window, calls, slowScope, registry, call>>

----------------------------------------------------------------------------
\* std::recursive_mutex

CanLock(mu, t) == mu.owner \in {NoThread, t}

Lock(mu, t) == IF mu.owner = t THEN [mu EXCEPT !.depth = @ + 1]
               ELSE [owner |-> t, depth |-> 1]

\* Mutant of Unlock: one unlock gives the mutex up whatever the depth
UnlockAtOnce(mu, t) == [owner |-> NoThread, depth |-> 0]

Unlock(mu, t) == IF mu.depth <= 1 THEN [owner |-> NoThread, depth |-> 0]
                 ELSE [mu EXCEPT !.depth = @ - 1]

----------------------------------------------------------------------------
\* The state the operations work on, as one record, so that calls compose.
\* ret: result of the last call, mc: a platform make-current call was made,
\* mf: a platform make-current call failed, lk: the recursive mutex was
\* acquired, af: an assert failed, ub: a destroyed context object was used.

World == [cur |-> currentContext, tc |-> transientContext, plat |-> platCur,
          mu |-> mutex, objs |-> unsharedGlObjects, alive |-> alive, lists |-> listOf,
          ret |-> TRUE, mc |-> FALSE, mf |-> FALSE, lk |-> FALSE, af |-> FALSE, ub |-> FALSE]

\* Platform make-current: thread-affine (a context current on another thread
\* cannot be made current here), refused for a destroyed context, and free to
\* fail otherwise (ok = FALSE).
makeCurrentSucceeds(w, t, c, active, ok) ==
    /\ ok
    /\ active => /\ c \in w.alive
                 /\ \A u \in Threads \ {t} : w.plat[u] # c

makeCurrent(plat, t, c, active) == [plat EXCEPT ![t] = IF active THEN c ELSE 0]

\* Mutant of setActiveLocked: the record is updated although makeCurrent failed
setActiveLockedIgnoringFailure(w, t, c, active, ok) ==
    LET l == [w EXCEPT !.mu = Lock(@, t), !.lk = TRUE, !.mc = TRUE,
                       !.ub = @ \/ c \notin w.alive]
        good == makeCurrentSucceeds(w, t, c, active, ok)
    IN [l EXCEPT !.plat = IF good THEN makeCurrent(@, t, c, active) ELSE @,
                 !.cur[t].id = IF active THEN c ELSE 0,
                 !.cur[t].ptr = IF active THEN c ELSE 0,
                 !.mu = Unlock(@, t),
                 !.mf = ~good,
                 !.ret = good]

\* Mutant of setActiveLocked: deactivation clears the identity but leaves the
\* pointer to the context in the record
setActiveLockedStalePtr(w, t, c, active, ok) ==
    LET l == [w EXCEPT !.mu = Lock(@, t), !.lk = TRUE, !.mc = TRUE,
                       !.ub = @ \/ c \notin w.alive]
    IN IF ~makeCurrentSucceeds(w, t, c, active, ok)
       THEN [l EXCEPT !.mu = Unlock(@, t), !.mf = TRUE, !.ret = FALSE]
       ELSE [l EXCEPT !.plat = makeCurrent(@, t, c, active),
                      !.cur[t].id = IF active THEN c ELSE 0,
                      !.cur[t].ptr = IF active THEN c ELSE @,
                      !.mu = Unlock(@, t),
                      !.ret = TRUE]

\* GlContext::setActive(graphicsContext, active) of context c on thread t
setActiveLocked(w, t, c, active, ok) ==
    LET l == [w EXCEPT !.mu = Lock(@, t), !.lk = TRUE, !.mc = TRUE,
                       !.ub = @ \/ c \notin w.alive]
    IN IF ~makeCurrentSucceeds(w, t, c, active, ok)
       THEN [l EXCEPT !.mu = Unlock(@, t), !.mf = TRUE, !.ret = FALSE]
       ELSE [l EXCEPT !.plat = makeCurrent(@, t, c, active),
                      !.cur[t].id = IF active THEN c ELSE 0,
                      !.cur[t].ptr = IF active THEN c ELSE 0,
                      !.mu = Unlock(@, t),
                      !.ret = TRUE]

\* Mutant of setActive: setActive(false) on a context that is not the active
\* one deactivates whatever context is active
setActiveDeactivatesAny(w, t, c, active, ok) ==
    IF active /\ c = w.cur[t].id THEN [w EXCEPT !.ret = TRUE]
    ELSE IF ~active /\ w.cur[t].id = 0 THEN [w EXCEPT !.ret = TRUE]
    ELSE setActiveLocked(w, t, c, active, ok)

setActive(w, t, c, active, ok) ==
    IF active /\ c = w.cur[t].id THEN [w EXCEPT !.ret = TRUE]
    ELSE IF ~active /\ c # w.cur[t].id THEN [w EXCEPT !.ret = TRUE]
    ELSE setActiveLocked(w, t, c, active, ok)

\* setActive blocks on the recursive mutex unless it returns early
setActiveNeedsLock(w, t, c, active) ==
    IF active THEN c # w.cur[t].id ELSE c = w.cur[t].id

----------------------------------------------------------------------------
\* GraphicsContext::setActive(active): forwards to the shared context
graphicsContextSetActive(w, t, sh, active, ok) == setActive(w, t, sh, active, ok)

\* TransientContext::TransientContext: member sharedContextLock locks the
\* recursive mutex, then the shared context is activated (failure is logged)
TransientContextCtor(w, t, sh, ok) ==
    LET l == [w EXCEPT !.mu = Lock(@, t), !.lk = TRUE,
                       !.af = @ \/ w.cur[t].id # 0]
        a == graphicsContextSetActive(l, t, sh, TRUE, ok)
    IN [a EXCEPT !.tc[t] = TRUE]

\* Mutant of TransientContextDtor: the lock is released without deactivating
\* the shared context
TransientContextDtorNoDeactivate(w, t, sh, ok) ==
    [w EXCEPT !.mu = Unlock(@, t), !.tc[t] = FALSE]

\* TransientContext::~TransientContext: the lock is always owned, so the
\* shared context is deactivated; destroying the member releases the lock
TransientContextDtor(w, t, sh, ok) ==
    LET d == graphicsContextSetActive(w, t, sh, FALSE, ok)
    IN [d EXCEPT !.mu = Unlock(@, t), !.tc[t] = FALSE]

\* Mutant of acquireTransientContext: no fast path, the TransientContext is
\* constructed although a context is active
acquireTransientContextNoFastPath(w, t, sh, ok) ==
    LET a == [w EXCEPT !.af = @ \/ w.cur[t].transientCount # 0 \/ w.tc[t]]
        e == IF a.tc[t] THEN TransientContextDtor(a, t, sh, FALSE) ELSE a
        n == TransientContextCtor(e, t, sh, ok)
    IN [n EXCEPT !.af = @ \/ n.cur[t].id = 0]

\* GlContext::acquireTransientContext
acquireTransientContext(w, t, sh, ok) ==
    IF w.cur[t].id # 0
    THEN [w EXCEPT !.cur[t].transientCount = @ + 1]
    ELSE LET a == [w EXCEPT !.af = @ \/ w.cur[t].transientCount # 0 \/ w.tc[t]]
             \* optional::emplace destroys a value that is still there
             e == IF a.tc[t] THEN TransientContextDtor(a, t, sh, FALSE) ELSE a
             n == TransientContextCtor(e, t, sh, ok)
         IN [n EXCEPT !.af = @ \/ n.cur[t].id = 0]

\* acquireTransientContext blocks on the recursive mutex on its slow path
acquireNeedsLock(w, t) == w.cur[t].id = 0

\* Mutant of releaseTransientContext: the fast path returns without
\* decrementing the counter
releaseTransientContextNoDecrement(w, t, sh, ok) ==
    LET a == [w EXCEPT !.af = @ \/ w.cur[t].id = 0]
    IN IF a.cur[t].transientCount > 0
       THEN a
       ELSE IF a.tc[t] THEN TransientContextDtor(a, t, sh, ok)
            ELSE [a EXCEPT !.af = TRUE]

\* GlContext::releaseTransientContext
releaseTransientContext(w, t, sh, ok) ==
    LET a == [w EXCEPT !.af = @ \/ w.cur[t].id = 0]
    IN IF a.cur[t].transientCount > 0
       THEN [a EXCEPT !.cur[t].transientCount = @ - 1]
       ELSE IF a.tc[t] THEN TransientContextDtor(a, t, sh, ok)
            ELSE [a EXCEPT !.af = TRUE]

----------------------------------------------------------------------------
\* The list of unshared GL objects.  Impl::getWeakUnsharedGlObjects().lock()
\* yields the list while a context (an Impl that owns it) exists.

ListExists(w) == w.alive # {}

\* Index of the first entry of the list that matches (id, h), 0 if none
RECURSIVE findIf(_, _, _, _)
findIf(objs, id, h, i) ==
    IF i > Len(objs) THEN 0
    ELSE IF objs[i].contextId = id /\ objs[i].object = h THEN i
    ELSE findIf(objs, id, h, i + 1)

\* Mutant of erase: the first element is erased, whatever the iterator
eraseFront(objs, i) == Tail(objs)

\* std::vector::erase(iter)
erase(objs, i) == SubSeq(objs, 1, i - 1) \o SubSeq(objs, i + 1, Len(objs))

\* Mutant of registerUnsharedGlObject: the entry is inserted at the front
registerUnsharedGlObjectAtFront(w, t, h) ==
    IF ListExists(w)
    THEN [w EXCEPT !.objs = <<[contextId |-> w.cur[t].id, object |-> h]>> \o @]
    ELSE w

\* GlContext::registerUnsharedGlObject
registerUnsharedGlObject(w, t, h) ==
    IF ListExists(w)
    THEN [w EXCEPT !.objs = Append(@, [contextId |-> w.cur[t].id, object |-> h])]
    ELSE w

\* Mutant of unregisterUnsharedGlObject: the entry is matched by the object
\* alone, whatever context is active
unregisterUnsharedGlObjectAnyContext(w, t, h) ==
    IF ListExists(w)
    THEN LET m == {i \in 1..Len(w.objs) : w.objs[i].object = h}
         IN IF m # {} THEN [w EXCEPT !.objs = erase(@, CHOOSE i \in m : \A j \in m : i <= j)]
            ELSE w
    ELSE w

\* GlContext::unregisterUnsharedGlObject
unregisterUnsharedGlObject(w, t, h) ==
    IF ListExists(w)
    THEN LET iter == findIf(w.objs, w.cur[t].id, h, 1)
         IN IF iter # 0 THEN [w EXCEPT !.objs = erase(@, iter)] ELSE w
    ELSE w

----------------------------------------------------------------------------
\* Mutant of cleanupUnsharedResources: the loop stops after the first entry
\* of the context
cleanupUnsharedResourcesFirstOnly(w, t, c, ok1, ok2) ==
    LET contextToRestore == IF c = w.cur[t].id THEN 0 ELSE w.cur[t].ptr
        a == setActive(w, t, c, TRUE, ok1)
        i == findIf(a.objs, c, CHOOSE h \in Handles : \E k \in 1..Len(a.objs) :
                                   a.objs[k] = [contextId |-> c, object |-> h], 1)
        e == IF \E k \in 1..Len(a.objs) : a.objs[k].contextId = c
             THEN [a EXCEPT !.objs = erase(@, i)] ELSE a
    IN IF contextToRestore # 0
       THEN setActive(e, t, contextToRestore, TRUE, ok2)
       ELSE e

\* Mutant of cleanupUnsharedResources: the entries that stay are put back in
\* reverse order
cleanupUnsharedResourcesReversing(w, t, c, ok1, ok2) ==
    LET contextToRestore == IF c = w.cur[t].id THEN 0 ELSE w.cur[t].ptr
        a == setActive(w, t, c, TRUE, ok1)
        k == SelectSeq(a.objs, LAMBDA o : o.contextId # c)
        e == [a EXCEPT !.objs = [j \in 1..Len(k) |-> k[Len(k) + 1 - j]]]
    IN IF contextToRestore # 0
       THEN setActive(e, t, contextToRestore, TRUE, ok2)
       ELSE e

\* Mutant of cleanupUnsharedResources: the context that was active is not
\* made active again
cleanupUnsharedResourcesNoRestore(w, t, c, ok1, ok2) ==
    LET a == setActive(w, t, c, TRUE, ok1)
    IN [a EXCEPT !.objs = SelectSeq(@, LAMBDA o : o.contextId # c)]

\* GlContext::cleanupUnsharedResources of context c on thread t
cleanupUnsharedResources(w, t, c, ok1, ok2) ==
    LET contextToRestore == IF c = w.cur[t].id THEN 0 ELSE w.cur[t].ptr
        a == setActive(w, t, c, TRUE, ok1)
        e == [a EXCEPT !.objs = SelectSeq(@, LAMBDA o : o.contextId # c)]
    IN IF contextToRestore # 0
       THEN setActive(e, t, contextToRestore, TRUE, ok2)
       ELSE e

\* getWeakUnsharedGlObjects().lock(): the list the weak_ptr refers to, 0 when
\* no shared_ptr to it is left (or none was ever made)
weakLock(lists) ==
    IF lists.gen # 0 /\ \E d \in Ids : lists.held[d] = lists.gen THEN lists.gen ELSE 0

\* Mutant of ImplCtor: the list that was made last is taken although no
\* shared_ptr to it is left
ImplCtorReusingExpired(w, c) ==
    IF w.lists.gen # 0
    THEN [w EXCEPT !.lists.held[c] = w.lists.gen]
    ELSE [w EXCEPT !.lists.gen = 1, !.lists.held[c] = 1, !.objs = <<>>]

\* GlContext::Impl::Impl of context c: takes the list the weak_ptr refers to,
\* or makes a new, empty list and sets the weak_ptr to it
ImplCtor(w, c) ==
    IF weakLock(w.lists) # 0
    THEN [w EXCEPT !.lists.held[c] = weakLock(w.lists)]
    ELSE [w EXCEPT !.lists.gen = @ + 1, !.lists.held[c] = w.lists.gen + 1, !.objs = <<>>]

\* Destruction of the Impl of context c: its shared_ptr is released, and the
\* list is destroyed with its entries when that was the last one
ImplDtor(w, c) ==
    LET released == [w EXCEPT !.lists.held[c] = 0]
    IN IF w.lists.held[c] = w.lists.gen /\ weakLock(released.lists) = 0
       THEN [released EXCEPT !.objs = <<>>]
       ELSE released

\* Destruction of the native context by the platform back-end: the context
\* stops being current on the destroying thread and no longer exists
destroyNative(w, t, c) ==
    [w EXCEPT !.plat[t] = IF @ = c THEN 0 ELSE @,
              !.alive = @ \ {c}]

\* Mutant of GlContextDtor: the record of the thread is cleared whatever
\* context is active
GlContextDtorClearsAlways(w, t, c) == [w EXCEPT !.cur[t].id = 0, !.cur[t].ptr = 0]

\* Mutant of GlContextDtor: the record of the thread is left as it is
GlContextDtorKeepsRecord(w, t, c) == w

\* GlContext::~GlContext
GlContextDtor(w, t, c) ==
    IF c = w.cur[t].id
    THEN [w EXCEPT !.cur[t].id = 0, !.cur[t].ptr = 0]
    ELSE w

\* The whole destructor chain of a context: derived class, then base class
destroyContext(w, t, c, ok1, ok2) ==
    ImplDtor(GlContextDtor(destroyNative(cleanupUnsharedResources(w, t, c, ok1, ok2), t, c), t, c), c)

\* The first setActive of cleanupUnsharedResources blocks unless c is active
cleanupNeedsLock(w, t, c) == c # w.cur[t].id

----------------------------------------------------------------------------
\* Mutant of fetchAdd: the counter is read but not advanced
fetchWithoutAdd(a) == [value |-> a, next |-> a]

\* GlContext::Impl::id : atomicId.fetch_add(1)
fetchAdd(a) == [value |-> a, next |-> a + 1]

----------------------------------------------------------------------------
\* Initial state: no GraphicsContext yet, nothing active anywhere

\* Depth at which thread t holds the recursive mutex
HeldDepth(mu, t) == IF mu.owner = t THEN mu.depth ELSE 0

\* History of the calling thread: a run starts with an acquire on a thread
\* that has no transient scope open and lasts while acquire calls are followed
\* by release calls only.  pre is the state of the thread before the run, n
\* the number of acquire calls, failed whether a make-current call failed.
\* A register call that appended an entry is remembered with the list before
\* the call (pre) and the entry, until the next call of any thread; "paired"
\* marks an unregister call that followed it directly and gave the list pre
\* back; "cleaned" marks a cleanup that removed entries from the list pre.
NoRun == [phase |-> "none"]

Snapshot(t) == [cur |-> currentContext[t], tc |-> transientContext[t],
                held |-> HeldDepth(mutex, t)]

RunNext(op, t, w) ==
    IF op = "register" /\ Len(w.objs) > Len(unsharedGlObjects)
    THEN [phase |-> "registered", pre |-> unsharedGlObjects, entry |-> w.objs[Len(w.objs)]]
    ELSE IF op = "unregister" /\ run[t].phase = "registered" /\ w.objs = run[t].pre
    THEN [phase |-> "paired", pre |-> run[t].pre, entry |-> run[t].entry]
    ELSE IF op = "cleanup" /\ w.objs # unsharedGlObjects
    THEN [phase |-> "cleaned", pre |-> unsharedGlObjects]
    ELSE IF op = "acquire" /\ scopes[t] = 0
    THEN [phase |-> "acquiring", n |-> 1, pre |-> Snapshot(t), failed |-> w.mf]
    ELSE IF op = "acquire" /\ run[t].phase = "acquiring"
    THEN [run[t] EXCEPT !.n = @ + 1, !.failed = @ \/ w.mf]
    ELSE IF op = "release" /\ run[t].phase \in {"acquiring", "releasing"} /\ scopes[t] > 1
    THEN [run[t] EXCEPT !.phase = "releasing", !.failed = @ \/ w.mf]
    ELSE NoRun

\* History of the create calls that were announced (pc "calling"): a call is
\* entered when it obtains the lock, and its identity is filled in when its
\* context object is constructed
CallsNext(op, t, c) ==
    IF op = "create:lock" /\ pc[t] = "calling"
    THEN Append(calls, [t |-> t, id |-> 0])
    ELSE IF op = "create:make" /\ calls # <<>> /\ calls[Len(calls)] = [t |-> t, id |-> 0]
    THEN [calls EXCEPT ![Len(calls)].id = c]
    ELSE calls

\* The step is the release that completes a run of n acquire and n release calls
CompletesRun(op, t) ==
    op = "release" /\ run[t].phase \in {"acquiring", "releasing"} /\ scopes[t] = 1

NoOp == [op |-> "none", t |-> NoThread, c |-> 0, active |-> FALSE, bal |-> 0,
         ret |-> TRUE, mc |-> FALSE, mf |-> FALSE, lk |-> FALSE, af |-> FALSE, ub |-> FALSE]

\* No call of a function on values is under way
NoCall == [f |-> "none"]

\* A thread that is in no call on the list of unshared objects
NoAccess == [op |-> "none", weak |-> "none", list |-> "none", h |-> "h0", restore |-> 0]

InitProgram ==
    /\ currentContext = [t \in Threads |-> [id |-> 0, ptr |-> 0, transientCount |-> 0]]
    /\ transientContext = [t \in Threads |-> FALSE]
    /\ platCur = [t \in Threads |-> 0]
    /\ mutex = [owner |-> NoThread, depth |-> 0]
    /\ atomicId = 1
    /\ created = <<>>
    /\ alive = {}
    /\ shared = 0
    /\ unsharedGlObjects = <<>>
    /\ listOf = [gen |-> 0, held |-> [c \in Ids |-> 0]]
    /\ pc = [t \in Threads |-> "idle"]
    /\ obj = [t \in Threads |-> 0]
    /\ scopes = [t \in Threads |-> 0]
    /\ run = [t \in Threads |-> NoRun]
    /\ last = NoOp
    /\ window = [context |-> 0, displayed |-> FALSE]
    /\ calls = <<>>
    /\ slowScope = [t \in Threads |-> 0]
    /\ registry = [owner |-> NoThread, at |-> [t \in Threads |-> NoAccess]]

Init == InitProgram /\ call = NoCall

\* Transient scopes open in the process
OpenScopes == scopes["T1"] + scopes["T2"]

\* No other thread than t has a transient scope open
NoScopeElsewhere(t) == \A u \in Threads \ {t} : scopes[u] = 0

\* Outcomes of a platform call to choose from: both when the call is made,
\* one when it is not made
Outcomes(made) == IF made THEN BOOLEAN ELSE {TRUE}

\* Contexts a caller can hold: alive and not inside create or a destructor
Usable == alive \ {obj[u] : u \in {v \in Threads : pc[v] # "idle"}}

\* The variables an operation on the World record can change
Commit(w) ==
    /\ currentContext' = w.cur
    /\ transientContext' = w.tc
    /\ platCur' = w.plat
    /\ mutex' = w.mu
    /\ unsharedGlObjects' = w.objs
    /\ alive' = w.alive
    /\ listOf' = w.lists

Record(op, t, c, active, w) ==
    /\ last' = [op |-> op, t |-> t, c |-> c, active |-> active, ret |-> w.ret,
                mc |-> w.mc, mf |-> w.mf, lk |-> w.lk, af |-> w.af, ub |-> w.ub,
                bal |-> IF CompletesRun(op, t) /\ ~run[t].failed /\ ~w.mf
                        THEN run[t].n ELSE 0]
    /\ run' = [u \in Threads |->
                   IF u = t THEN RunNext(op, t, w)
                   ELSE IF run[u].phase \in {"registered", "paired", "cleaned"} THEN NoRun
                   ELSE run[u]]
    /\ calls' = CallsNext(op, t, c)
    /\ call' = call

\* A step of the program that is not a call on the window
Done(op, t, c, active, w) ==
    /\ Record(op, t, c, active, w)
    /\ window' = window /\ slowScope' = slowScope /\ registry' = registry

\* GraphicsContext::GraphicsContext: constructs the shared context
GraphicsContextCtor(t) ==
    /\ shared = 0
    /\ pc[t] = "idle"
    /\ atomicId <= MaxId
    /\ LET f == fetchAdd(atomicId)
           w == ImplCtor([World EXCEPT !.alive = @ \cup {f.value}], f.value)
       IN /\ atomicId' = f.next
          /\ created' = Append(created, f.value)
          /\ shared' = f.value
          /\ Commit(w) /\ Done("GraphicsContext", t, f.value, FALSE, w)
    /\ UNCHANGED <<pc, obj, scopes>>

\* A call of GlContext::setActive on a context the caller holds
SetActive(t, c, active, ok) ==
    /\ shared # 0
    /\ pc[t] = "idle"
    /\ c \in Usable
    /\ ok \in Outcomes(setActiveNeedsLock(World, t, c, active))
    /\ setActiveNeedsLock(World, t, c, active) => CanLock(mutex, t)
    /\ LET w == setActive(World, t, c, active, ok)
       IN Commit(w) /\ Done("setActive", t, c, active, w)
    /\ UNCHANGED <<atomicId, created, shared, pc, obj, scopes>>

\* A call of GlContext::acquireTransientContext
AcquireTransient(t, ok) ==
    /\ shared # 0
    /\ pc[t] = "idle"
    /\ OpenScopes < MaxScopes
    /\ NoScopeElsewhere(t)
    /\ ok \in Outcomes(acquireNeedsLock(World, t))
    /\ acquireNeedsLock(World, t) => CanLock(mutex, t)
    /\ LET w == acquireTransientContext(World, t, shared, ok)
       IN Commit(w) /\ Done("acquire", t, 0, TRUE, w)
    /\ scopes' = [scopes EXCEPT ![t] = @ + 1]
    /\ UNCHANGED <<atomicId, created, shared, pc, obj>>

\* The matching call of GlContext::releaseTransientContext
ReleaseTransient(t, ok) ==
    /\ pc[t] = "idle"
    /\ scopes[t] > 0
    /\ ok \in Outcomes(setActiveNeedsLock(World, t, shared, FALSE))
    /\ LET w == releaseTransientContext(World, t, shared, ok)
       IN Commit(w) /\ Done("release", t, 0, FALSE, w)
    /\ scopes' = [scopes EXCEPT ![t] = @ - 1]
    /\ UNCHANGED <<atomicId, created, shared, pc, obj>>

----------------------------------------------------------------------------
\* GlContext::create, statement by statement

\* const std::lock_guard lock(graphicsContext.getMutex())
CreateLockFrom(t, at) ==
    /\ shared # 0
    /\ pc[t] = at
    /\ atomicId <= MaxId
    /\ CanLock(mutex, t)
    /\ LET w == [World EXCEPT !.mu = Lock(@, t), !.lk = TRUE]
       IN Commit(w) /\ Done("create:lock", t, 0, FALSE, w)
    /\ pc' = [pc EXCEPT ![t] = "locked"]
    /\ UNCHANGED <<atomicId, created, shared, obj, scopes>>

\* create called by a thread that is doing nothing else
CreateLock(t) == CreateLockFrom(t, "idle")

\* if (!graphicsContext.setActive(true)) err() << ...
CreateActivateShared(t, ok) ==
    /\ pc[t] = "locked"
    /\ ok \in Outcomes(setActiveNeedsLock(World, t, shared, TRUE))
    /\ LET w == graphicsContextSetActive(World, t, shared, TRUE, ok)
       IN Commit(w) /\ Done("create:activate", t, shared, TRUE, w)
    /\ pc' = [pc EXCEPT ![t] = "activated"]
    /\ UNCHANGED <<atomicId, created, shared, obj, scopes>>

\* graphicsContext.makeContextType(context): constructs the context object,
\* whose Impl takes the next identity
CreateMake(t) ==
    /\ pc[t] = "activated"
    /\ LET f == fetchAdd(atomicId)
           w == ImplCtor([World EXCEPT !.alive = @ \cup {f.value}], f.value)
       IN /\ atomicId' = f.next
          /\ created' = Append(created, f.value)
          /\ obj' = [obj EXCEPT ![t] = f.value]
          /\ Commit(w) /\ Done("create:make", t, f.value, FALSE, w)
    /\ pc' = [pc EXCEPT ![t] = "made"]
    /\ UNCHANGED <<shared, scopes>>

\* if (!graphicsContext.setActive(false)) err() << ...
CreateDeactivateShared(t, ok) ==
    /\ pc[t] = "made"
    /\ ok \in Outcomes(setActiveNeedsLock(World, t, shared, FALSE))
    /\ LET w == graphicsContextSetActive(World, t, shared, FALSE, ok)
       IN Commit(w) /\ Done("create:deactivate", t, shared, FALSE, w)
    /\ pc' = [pc EXCEPT ![t] = "deactivated"]
    /\ UNCHANGED <<atomicId, created, shared, obj, scopes>>

\* context->initialize(...): activates the new context (failure is logged) and
\* loads the GL entry points; if they cannot be loaded the context is destroyed
\* and create returns nullptr.  The lock_guard is released on return.
CreateInitialize(t, ok, loaded, ok1, ok2) ==
    /\ pc[t] = "deactivated"
    /\ ok1 \in Outcomes(~loaded /\ ~ok)
    /\ ok2 \in Outcomes(~loaded /\ currentContext[t].ptr # 0)
    /\ LET c == obj[t]
           i == setActive(World, t, c, TRUE, ok)
           r == IF loaded THEN i ELSE destroyContext(i, t, c, ok1, ok2)
       IN \E w \in {[r EXCEPT !.mu = Unlock(@, t), !.ret = loaded]} :
             Commit(w) /\ Done("create", t, IF loaded THEN c ELSE 0, TRUE, w)
    /\ pc' = [pc EXCEPT ![t] = "idle"]
    /\ obj' = [obj EXCEPT ![t] = 0]
    /\ UNCHANGED <<atomicId, created, shared, scopes>>

----------------------------------------------------------------------------
\* Destruction of a context the caller holds: the destructor of the platform
\* class runs cleanupUnsharedResources and destroys the native context, then
\* GlContext::~GlContext runs

DestroyCleanup(t, c, ok1, ok2) ==
    /\ pc[t] = "idle"
    /\ c \in Usable \ {shared}
    /\ ok1 \in Outcomes(cleanupNeedsLock(World, t, c))
    /\ ok2 \in Outcomes(cleanupNeedsLock(World, t, c) /\ currentContext[t].ptr # 0)
    /\ cleanupNeedsLock(World, t, c) => CanLock(mutex, t)
    /\ LET w == cleanupUnsharedResources(World, t, c, ok1, ok2)
       IN Commit(w) /\ Done("cleanup", t, c, TRUE, w)
    /\ pc' = [pc EXCEPT ![t] = "destroying"]
    /\ obj' = [obj EXCEPT ![t] = c]
    /\ UNCHANGED <<atomicId, created, shared, scopes>>

DestroyFinish(t) ==
    /\ pc[t] = "destroying"
    /\ LET w == ImplDtor(GlContextDtor(destroyNative(World, t, obj[t]), t, obj[t]), obj[t])
       IN Commit(w) /\ Done("destroy", t, obj[t], FALSE, w)
    /\ pc' = [pc EXCEPT ![t] = "idle"]
    /\ obj' = [obj EXCEPT ![t] = 0]
    /\ UNCHANGED <<atomicId, created, shared, scopes>>

\* Destruction of a context the caller holds, from the first statement of
\* the destructor of the platform class to the last of GlContext::~GlContext
Destroy(t, c, ok1, ok2) ==
    /\ pc[t] = "idle"
    /\ c \in Usable \ {shared}
    /\ ok1 \in Outcomes(cleanupNeedsLock(World, t, c))
    /\ ok2 \in Outcomes(cleanupNeedsLock(World, t, c) /\ currentContext[t].ptr # 0)
    /\ cleanupNeedsLock(World, t, c) => CanLock(mutex, t)
    /\ LET w == destroyContext(World, t, c, ok1, ok2)
       IN Commit(w) /\ Done("destroy", t, c, FALSE, w)
    /\ UNCHANGED <<atomicId, created, shared, pc, obj, scopes>>

----------------------------------------------------------------------------
\* Calls on the list of unshared GL objects.  Each holds the registry mutex
\* (Impl::getUnsharedGlObjectsMutex()) from its first to its last statement, as
\* does the loop of cleanupUnsharedResources, so each is one step.

\* The list holds the only shared_ptr to an object (the caller's is moved into
\* it), so an object has at most one entry
IsRegistered(h) == \E i \in 1..Len(unsharedGlObjects) : unsharedGlObjects[i].object = h

\* A call of GlContext::registerUnsharedGlObject
Register(t, h) ==
    /\ pc[t] = "idle"
    /\ ~IsRegistered(h)
    /\ LET w == registerUnsharedGlObject(World, t, h)
       IN Commit(w) /\ Done("register", t, currentContext[t].id, TRUE, w)
    /\ UNCHANGED <<atomicId, created, shared, pc, obj, scopes>>

\* A call of GlContext::unregisterUnsharedGlObject
Unregister(t, h) ==
    /\ pc[t] = "idle"
    /\ LET w == unregisterUnsharedGlObject(World, t, h)
       IN Commit(w) /\ Done("unregister", t, currentContext[t].id, FALSE, w)
    /\ UNCHANGED <<atomicId, created, shared, pc, obj, scopes>>

----------------------------------------------------------------------------
Next ==
    \/ \E t \in Threads : GraphicsContextCtor(t)
    \/ \E t \in Threads, c \in Ids, active \in BOOLEAN, ok \in BOOLEAN : SetActive(t, c, active, ok)
    \/ \E t \in Threads, ok \in BOOLEAN : AcquireTransient(t, ok)
    \/ \E t \in Threads, ok \in BOOLEAN : ReleaseTransient(t, ok)
    \/ \E t \in Threads : CreateLock(t)
    \/ \E t \in Threads, ok \in BOOLEAN : CreateActivateShared(t, ok)
    \/ \E t \in Threads : CreateMake(t)
    \/ \E t \in Threads, ok \in BOOLEAN : CreateDeactivateShared(t, ok)
    \/ \E t \in Threads, ok \in BOOLEAN, loaded \in BOOLEAN, ok1 \in BOOLEAN, ok2 \in BOOLEAN :
          CreateInitialize(t, ok, loaded, ok1, ok2)
    \/ \E t \in Threads, c \in Ids, ok1 \in BOOLEAN, ok2 \in BOOLEAN : DestroyCleanup(t, c, ok1, ok2)
    \/ \E t \in Threads : DestroyFinish(t)

Spec == Init /\ [][Next]_vars

\* The program with the calls on the list of unshared GL objects and without
\* transient scopes
NextRegistry ==
    \/ \E t \in Threads : atomicId <= MaxRegistryId /\ GraphicsContextCtor(t)
    \/ \E t \in Threads, c \in Ids, active \in BOOLEAN, ok \in BOOLEAN : SetActive(t, c, active, ok)
    \/ \E t \in Threads : atomicId <= MaxRegistryId /\ CreateLock(t)
    \/ \E t \in Threads, ok \in BOOLEAN : CreateActivateShared(t, ok)
    \/ \E t \in Threads : CreateMake(t)
    \/ \E t \in Threads, ok \in BOOLEAN : CreateDeactivateShared(t, ok)
    \/ \E t \in Threads, ok \in BOOLEAN, loaded \in BOOLEAN, ok1 \in BOOLEAN, ok2 \in BOOLEAN :
          CreateInitialize(t, ok, loaded, ok1, ok2)
    \/ \E t \in Threads, c \in Ids, ok1 \in BOOLEAN, ok2 \in BOOLEAN : DestroyCleanup(t, c, ok1, ok2)
    \/ \E t \in Threads : DestroyFinish(t)
    \/ \E t \in Threads, h \in Registrable : Register(t, h)
    \/ \E t \in Threads, h \in Handles : Unregister(t, h)

SpecRegistry == Init /\ [][NextRegistry]_vars

TypeOK ==
    /\ \A t \in Threads : /\ currentContext[t].id \in 0..MaxId
                          /\ currentContext[t].ptr \in 0..MaxId
                          /\ currentContext[t].transientCount \in 0..MaxScopes
                          /\ platCur[t] \in 0..MaxId
    /\ mutex.owner \in Threads \cup {NoThread}
    /\ atomicId \in 1..(MaxId + 1)

----------------------------------------------------------------------------
\* Accessors of the calling thread's record
getActiveContextId(t) == currentContext[t].id
getActiveContext(t) == currentContext[t].ptr
hasActiveContext(t) == getActiveContextId(t) # 0

ActiveOn(c) == {t \in Threads : getActiveContextId(t) = c}

----------------------------------------------------------------------------
\* C1: at every instant, every context identity is the active identity of at
\* most one thread's activation record.
C1_AtMostOneThreadPerIdentity ==
    \A c \in Ids : Cardinality(ActiveOn(c)) <= 1

\* C1 witness: a thread tried to activate a context that is active on another
\* thread, and two threads have a context active.
C1_Witness ==
    /\ last.op = "setActive" /\ last.active /\ ~last.ret
    /\ \E u \in Threads \ {last.t} : getActiveContextId(u) = last.c
    /\ \A t \in Threads : hasActiveContext(t)

----------------------------------------------------------------------------
\* C3: identities are issued as a strictly increasing sequence starting at 1:
\* no context has identity 0, no two contexts (alive or destroyed) share an
\* identity, and a context constructed later has a larger identity.
C3_IdentitiesStrictlyIncreasing ==
    /\ \A i \in 1..Len(created) : created[i] # 0
    /\ Len(created) > 0 => created[1] = 1
    /\ \A i, j \in 1..Len(created) : i < j => created[i] < created[j]
    /\ alive \subseteq {created[i] : i \in 1..Len(created)}

\* C3 witness: all identities of the bound were issued and an earlier context
\* was destroyed before the last one was constructed.
C3_Witness ==
    /\ Len(created) = MaxId
    /\ last.op = "create" /\ last.c = MaxId
    /\ \E i \in 2..Len(created) : created[i] \notin alive /\ created[i] < last.c

----------------------------------------------------------------------------
\* The step is made by thread t and leaves the shared context active on t
\* although it was not before
ActivatesShared(t) ==
    /\ last'.t = t
    /\ currentContext[t].id # shared
    /\ currentContext'[t].id = shared'

\* The step makes thread t give up the recursive mutex
GivesLockUp(t) == mutex.owner = t /\ mutex'.owner # t

SharedOnAtMostOneThread ==
    shared # 0 => Cardinality(ActiveOn(shared)) <= 1

----------------------------------------------------------------------------
\* The record of thread t in the state after the step
ActiveIdAfter(t) == currentContext'[t].id
ActivePtrAfter(t) == currentContext'[t].ptr

\* C4 as stated: after setActive(C, true) returns true on T the record of T
\* holds identity(C) and points to C; after setActive(C, false) on T while C
\* is still the active context of T the identity is 0 and the pointer null.
C4_Original ==
    [][last'.op = "setActive" =>
         /\ (last'.active /\ last'.ret) =>
               (ActiveIdAfter(last'.t) = last'.c /\ ActivePtrAfter(last'.t) = last'.c)
         /\ (~last'.active /\ currentContext[last'.t].id = last'.c) =>
               (ActiveIdAfter(last'.t) = 0 /\ ActivePtrAfter(last'.t) = 0)]_vars

\* C4 amended: the record is cleared by setActive(C, false) when that call
\* returns true; the activation half is as stated.
C4_RecordTracksSetActive ==
    [][last'.op = "setActive" =>
         /\ (last'.active /\ last'.ret) =>
               (ActiveIdAfter(last'.t) = last'.c /\ ActivePtrAfter(last'.t) = last'.c)
         /\ (~last'.active /\ currentContext[last'.t].id = last'.c /\ last'.ret) =>
               (ActiveIdAfter(last'.t) = 0 /\ ActivePtrAfter(last'.t) = 0)]_vars

\* C4 witness: a context that was activated with setActive(C, true) has been
\* deactivated by a setActive(C, false) that called the platform and returned
\* true, while the other thread has a context active.
C4_Witness ==
    /\ last.op = "setActive" /\ ~last.active /\ last.ret /\ last.mc
    /\ last.c # shared
    /\ ~hasActiveContext(last.t) /\ getActiveContext(last.t) = 0
    /\ \E u \in Threads \ {last.t} : hasActiveContext(u)

----------------------------------------------------------------------------
\* The requested state already holds on the calling thread before the step
AlreadyAsRequested(t, c, active) ==
    IF active THEN currentContext[t].id = c ELSE currentContext[t].id # c

\* C5: setActive is a no-op returning true when the requested state already
\* holds on the calling thread: no platform make-current call, no lock taken,
\* and the records, the platform state and the mutex are unchanged.
C5_SetActiveNoOp ==
    [][(last'.op = "setActive" /\ AlreadyAsRequested(last'.t, last'.c, last'.active)) =>
         /\ last'.ret /\ ~last'.mc /\ ~last'.lk
         /\ currentContext' = currentContext
         /\ platCur' = platCur
         /\ mutex' = mutex]_vars

\* C5 witness: setActive(false) was called on a context while another context
\* is the active one of the thread, and nothing was done.
C5_Witness ==
    /\ last.op = "setActive" /\ ~last.active /\ last.ret /\ ~last.mc
    /\ getActiveContextId(last.t) \notin {0, last.c}
    /\ currentContext[last.t].transientCount > 0

\* C6: when the platform make-current call fails, setActive returns false,
\* the record of the calling thread is as before the call, and the mutex is
\* as before the call (the acquisition of setActive is released).
C6_FailedMakeCurrent ==
    [][(last'.op = "setActive" /\ last'.mf) =>
         /\ ~last'.ret
         /\ currentContext'[last'.t] = currentContext[last'.t]
         /\ platCur' = platCur
         /\ mutex' = mutex]_vars

\* C6 witness: a deactivation failed, the context is still the active one of
\* the thread and the mutex is free.
C6_Witness ==
    /\ last.op = "setActive" /\ ~last.active /\ last.mf /\ ~last.ret /\ last.lk
    /\ getActiveContextId(last.t) = last.c
    /\ mutex.owner = NoThread

\* C7: for every thread, hasActiveContext is true iff a context is current on
\* the thread at the platform level, and it is the context of the record.
C7_ActiveIffPlatformCurrent ==
    \A t \in Threads :
        /\ hasActiveContext(t) <=> platCur[t] # 0
        /\ getActiveContextId(t) = platCur[t]

\* C7 witness: a context has been destroyed on a thread that now has no
\* context active, while the other thread has a context active.
C7_Witness ==
    /\ last.op = "destroy"
    /\ ~hasActiveContext(last.t) /\ platCur[last.t] = 0
    /\ \E u \in Threads \ {last.t} : hasActiveContext(u)

----------------------------------------------------------------------------
\* The state of thread t after the step is the state recorded before the run
RestoredAfter(t) ==
    /\ currentContext'[t] = run[t].pre.cur
    /\ transientContext'[t] = FALSE
    /\ HeldDepth(mutex', t) = run[t].pre.held

----------------------------------------------------------------------------
\* The step changes nothing but the nesting counter of thread t, by d
OnlyCounterChanges(t, d) ==
    /\ currentContext' = [currentContext EXCEPT ![t].transientCount = @ + d]
    /\ transientContext' = transientContext
    /\ platCur' = platCur
    /\ mutex' = mutex
    /\ ~last'.mc /\ ~last'.lk

\* The release is one of a run that began with a context active
InFastRun(t) ==
    /\ run[t].phase \in {"acquiring", "releasing"}
    /\ run[t].pre.cur.id # 0

\* C9: with a context active on the calling thread, acquireTransientContext
\* only increments the nesting counter (identity and pointer unchanged, the
\* shared context not activated, the mutex not taken); the matching release
\* (counter above 0, as in every run that began with a context active) only
\* decrements it.
C9_FastPath ==
    [][\A t \in Threads :
         /\ (last'.t = t /\ last'.op = "acquire" /\ currentContext[t].id # 0)
               => OnlyCounterChanges(t, 1)
         /\ (last'.t = t /\ last'.op = "release" /\ InFastRun(t))
               => currentContext[t].transientCount > 0
         /\ (last'.t = t /\ last'.op = "release" /\ currentContext[t].transientCount > 0)
               => OnlyCounterChanges(t, -1)]_vars

\* C9 witness: a run of MaxScopes acquire and release calls has completed on
\* a thread that has a context of its own active, without any platform call,
\* while the other thread holds the mutex.
C9_Witness ==
    /\ last.op = "release" /\ last.bal = MaxScopes /\ ~last.mc /\ ~last.lk
    /\ getActiveContextId(last.t) \notin {0, shared}
    /\ currentContext[last.t].transientCount = 0
    /\ mutex.owner \in Threads \ {last.t}

\* C10 as stated: with no context active, acquireTransientContext takes the
\* mutex and activates the shared context, so the active identity is the
\* shared context's on return; the release that ends the scope (counter 0)
\* deactivates the shared context and releases the mutex, so the active
\* identity is 0 again.
C10_Original ==
    [][\A t \in Threads :
         /\ (last'.t = t /\ last'.op = "acquire" /\ currentContext[t].id = 0)
               => /\ currentContext'[t].id = shared
                  /\ HeldDepth(mutex', t) > 0
         /\ (last'.t = t /\ last'.op = "release" /\ currentContext[t].transientCount = 0
               /\ transientContext[t] /\ currentContext[t].id = shared)
               => /\ currentContext'[t].id = 0
                  /\ HeldDepth(mutex', t) = HeldDepth(mutex, t) - 1]_vars

\* C10 without platform failures (not the claim; shows what the divergence is)
C10_WhenMakeCurrentSucceeds ==
    [][\A t \in Threads :
         /\ (last'.t = t /\ last'.op = "acquire" /\ currentContext[t].id = 0 /\ ~last'.mf)
               => /\ currentContext'[t].id = shared
                  /\ HeldDepth(mutex', t) > 0
         /\ (last'.t = t /\ last'.op = "release" /\ currentContext[t].transientCount = 0
               /\ transientContext[t] /\ currentContext[t].id = shared /\ ~last'.mf)
               => /\ currentContext'[t].id = 0
                  /\ HeldDepth(mutex', t) = HeldDepth(mutex, t) - 1]_vars

----------------------------------------------------------------------------
\* C11 as stated: whenever acquireTransientContext is called on a thread whose
\* active identity is 0, the nesting counter of the thread is 0 and the thread
\* has no transient state object (the assertions at the start of the slow path
\* hold), after any sequence of setActive, acquire, release, create and
\* context destruction on the thread.
C11_Original ==
    [][\A t \in Threads :
         (last'.t = t /\ last'.op = "acquire" /\ currentContext[t].id = 0)
            => (currentContext[t].transientCount = 0 /\ ~transientContext[t])]_vars

----------------------------------------------------------------------------
\* C12 as stated: from the return of acquireTransientContext until the
\* matching releaseTransientContext is called, the active identity of the
\* calling thread is nonzero at every instant, also when the activation of
\* the shared context fails.
C12_Original ==
    \A t \in Threads : scopes[t] > 0 => hasActiveContext(t)

----------------------------------------------------------------------------
\* The step changes nothing but the list of unshared GL objects
OnlyListChanges ==
    /\ currentContext' = currentContext
    /\ transientContext' = transientContext
    /\ platCur' = platCur
    /\ mutex' = mutex
    /\ alive' = alive

Entry(id, h) == [contextId |-> id, object |-> h]

\* C13: registerUnsharedGlObject(h) appends exactly one entry (active identity
\* of the calling thread, h) at the end of the list and changes no other
\* entry; when no context is alive (the list does not exist) it changes
\* nothing.
C13_RegisterAppends ==
    [][\A t \in Threads, h \in Registrable :
         Register(t, h) =>
            /\ OnlyListChanges
            /\ IF alive # {}
               THEN /\ Len(unsharedGlObjects') = Len(unsharedGlObjects) + 1
                    /\ SubSeq(unsharedGlObjects', 1, Len(unsharedGlObjects)) = unsharedGlObjects
                    /\ unsharedGlObjects'[Len(unsharedGlObjects')] = Entry(currentContext[t].id, h)
               ELSE unsharedGlObjects' = unsharedGlObjects]_vars

\* C13 witness: a register call has appended an entry with the identity of
\* the caller's active context behind an entry of another context.
C13_Witness ==
    /\ last.op = "register"
    /\ Len(unsharedGlObjects) = 2
    /\ hasActiveContext(last.t)
    /\ unsharedGlObjects[2].contextId = getActiveContextId(last.t)
    /\ unsharedGlObjects[1].contextId \notin {0, getActiveContextId(last.t)}

----------------------------------------------------------------------------
\* No entry of the list carries both the active identity of thread t and h
NoMatch(t, h) ==
    \A i \in 1..Len(unsharedGlObjects) :
        ~(unsharedGlObjects[i].contextId = currentContext[t].id
          /\ unsharedGlObjects[i].object = h)

----------------------------------------------------------------------------
----------------------------------------------------------------------------
\* The list holds no entry of context c
NoEntryOf(objs, c) == \A i \in 1..Len(objs) : objs[i].contextId # c

\* C16: when cleanupUnsharedResources of context C has completed, the list
\* holds no entry with the identity of C (also when create destroys the
\* context it could not initialize), and running the cleanup again, whatever
\* the platform calls return, leaves the list as it is.
C16_CleanupRemovesAll ==
    [][/\ \A t \in Threads, c \in Ids :
            (last'.op = "cleanup" /\ last'.t = t /\ last'.c = c)
               => /\ NoEntryOf(unsharedGlObjects', c)
                  /\ \A ok1, ok2 \in BOOLEAN :
                        cleanupUnsharedResources(World', t, c, ok1, ok2).objs = unsharedGlObjects'
       /\ \A t \in Threads :
            (last'.op = "create" /\ last'.t = t /\ ~last'.ret)
               => NoEntryOf(unsharedGlObjects', obj[t])]_vars

\* C16 witness: the cleanup of a context has removed the two entries the
\* context had in the list.
C16_Witness ==
    /\ last.op = "cleanup"
    /\ run[last.t].phase = "cleaned"
    /\ Len(run[last.t].pre) = 2
    /\ \A i \in 1..2 : run[last.t].pre[i].contextId = last.c
    /\ unsharedGlObjects = <<>>

----------------------------------------------------------------------------
\* C17: the cleanup of context C removes only the entries of C: the entries
\* of every other identity are still in the list afterwards, in the same
\* relative order, and the activation record of no thread other than the
\* caller changes.
C17_CleanupRemovesOnlyOwn ==
    [][\A t \in Threads, c \in Ids :
         (last'.op = "cleanup" /\ last'.t = t /\ last'.c = c)
            => /\ unsharedGlObjects' = SelectSeq(unsharedGlObjects, LAMBDA o : o.contextId # c)
               /\ \A u \in Threads \ {t} : currentContext'[u] = currentContext[u]]_vars

\* C17 witness: the cleanup of a context has removed the entry of the context
\* and left the entry of the context that is active on the other thread.
C17_Witness ==
    /\ last.op = "cleanup"
    /\ run[last.t].phase = "cleaned"
    /\ Len(run[last.t].pre) = 2
    /\ Len(unsharedGlObjects) = 1
    /\ unsharedGlObjects[1].contextId \notin {0, last.c}
    /\ \E u \in Threads \ {last.t} : getActiveContextId(u) = unsharedGlObjects[1].contextId

----------------------------------------------------------------------------
\* Contexts that exist and whose destructor has not yet run the cleanup
NotCleanedUp == alive \ {obj[u] : u \in {v \in Threads : pc[v] = "destroying"}}

\* C18 as stated: in every reachable state every entry of the list carries
\* the identity of a context that exists and has not completed its cleanup;
\* no entry carries identity 0 or the identity of a context whose cleanup has
\* run.
C18_Original ==
    \A i \in 1..Len(unsharedGlObjects) : unsharedGlObjects[i].contextId \in NotCleanedUp

----------------------------------------------------------------------------
\* C19 as stated: whenever an entry leaves the list, the context whose
\* identity the entry carries is the active context of the thread that
\* releases it: for unregisterUnsharedGlObject the caller's active context,
\* for the cleanup of context C the context that is active when the loop
\* runs, also when the activation of C for the cleanup failed.
C19_Original ==
    [][/\ \A t \in Threads, h \in Handles :
            (Unregister(t, h) /\ unsharedGlObjects' # unsharedGlObjects)
               => \E i \in 1..Len(unsharedGlObjects) :
                     /\ unsharedGlObjects[i] = Entry(currentContext[t].id, h)
                     /\ unsharedGlObjects' = erase(unsharedGlObjects, i)
       /\ \A t \in Threads, c \in Ids, ok1, ok2 \in BOOLEAN :
            (DestroyCleanup(t, c, ok1, ok2) /\ unsharedGlObjects' # unsharedGlObjects)
               => setActive(World, t, c, TRUE, ok1).cur[t].id = c]_vars

----------------------------------------------------------------------------
\* The context that the platform factory produced for the create call of
\* thread t is not usable: it cannot be made current when initialize tries
Unusable(t, ok) == ~setActive(World, t, obj[t], TRUE, ok).ret

\* C20 as stated: if the platform factory fails to produce a usable context,
\* create returns a null result, with the shared context not active on the
\* caller and the lock released.
C20_Original ==
    [][\A t \in Threads, ok, loaded, ok1, ok2 \in BOOLEAN :
         (CreateInitialize(t, ok, loaded, ok1, ok2) /\ Unusable(t, ok))
            => /\ ~last'.ret
               /\ currentContext'[t].id # shared
               /\ HeldDepth(mutex', t) = HeldDepth(mutex, t) - 1]_vars

----------------------------------------------------------------------------
\* Settings negotiation of GlContext::create(graphicsContext, settings, ...),
\* on values.  attributeFlags is the set of the ContextSettings::Attribute bits
\* that are set (Default is the empty set).

Core == "Core"
Debug == "Debug"

\* The settings a caller requests
RequestedSettings ==
    [depthBits : {16, 24}, stencilBits : {8}, antialiasingLevel : {0, 4},
     majorVersion : {2, 3}, minorVersion : {1, 3},
     attributeFlags : {{}, {Core}, {Debug}}, sRgbCapable : BOOLEAN]

\* What the platform and the driver grant: the pixel format the platform
\* constructor stores in m_settings, and the answers of the GL queries
DriverSettings ==
    [depthBits : {16, 24}, stencilBits : {0, 8}, antialiasingLevel : {0, 4},
     sRgbCapable : BOOLEAN, majorVersion : {2, 3}, minorVersion : {1, 3},
     debugBit : BOOLEAN, coreProfile : BOOLEAN, arbCompatibility : BOOLEAN]

\* GlContext::initialize, the attribute flags it derives from the version and
\* the GL_CONTEXT_FLAGS, GL_EXTENSIONS and GL_CONTEXT_PROFILE_MASK queries
attributeFlagsOf(driver) ==
    IF driver.majorVersion >= 3
    THEN (IF driver.debugBit THEN {Debug} ELSE {}) \cup
         (IF driver.majorVersion = 3 /\ driver.minorVersion = 1
          THEN (IF driver.arbCompatibility THEN {} ELSE {Core})
          ELSE IF driver.majorVersion > 3 \/ driver.minorVersion >= 2
          THEN (IF driver.coreProfile THEN {Core} ELSE {})
          ELSE {})
    ELSE {}

\* Mutant of initializeSettings: the enabled state of sRGB is not re-queried
initializeSettingsTrustingEnable(requested, driver, enabled) ==
    [depthBits |-> driver.depthBits,
     stencilBits |-> driver.stencilBits,
     antialiasingLevel |-> IF requested.antialiasingLevel > 0 /\ driver.antialiasingLevel > 0
                           THEN driver.antialiasingLevel ELSE 0,
     majorVersion |-> driver.majorVersion,
     minorVersion |-> driver.minorVersion,
     attributeFlags |-> attributeFlagsOf(driver),
     sRgbCapable |-> requested.sRgbCapable /\ driver.sRgbCapable]

\* GlContext::initialize, the value it leaves in m_settings; enabled is the
\* answer of glIsEnabled(GL_FRAMEBUFFER_SRGB) after glEnable
initializeSettings(requested, driver, enabled) ==
    [depthBits |-> driver.depthBits,
     stencilBits |-> driver.stencilBits,
     antialiasingLevel |-> IF requested.antialiasingLevel > 0 /\ driver.antialiasingLevel > 0
                           THEN driver.antialiasingLevel ELSE 0,
     majorVersion |-> driver.majorVersion,
     minorVersion |-> driver.minorVersion,
     attributeFlags |-> attributeFlagsOf(driver),
     sRgbCapable |-> IF requested.sRgbCapable /\ driver.sRgbCapable THEN enabled ELSE FALSE]

\* Mutant of checkSettings: the attribute flags are not compared
checkSettingsWithoutFlags(m, requested) ==
    LET version == m.majorVersion * 10 + m.minorVersion
        requestedVersion == requested.majorVersion * 10 + requested.minorVersion
    IN IF \/ version < requestedVersion
          \/ m.stencilBits < requested.stencilBits
          \/ m.antialiasingLevel < requested.antialiasingLevel
          \/ m.depthBits < requested.depthBits
          \/ ~m.sRgbCapable /\ requested.sRgbCapable
       THEN 1 ELSE 0

\* GlContext::checkSettings: the number of warnings it writes
checkSettings(m, requested) ==
    LET version == m.majorVersion * 10 + m.minorVersion
        requestedVersion == requested.majorVersion * 10 + requested.minorVersion
    IN IF \/ m.attributeFlags # requested.attributeFlags
          \/ version < requestedVersion
          \/ m.stencilBits < requested.stencilBits
          \/ m.antialiasingLevel < requested.antialiasingLevel
          \/ m.depthBits < requested.depthBits
          \/ ~m.sRgbCapable /\ requested.sRgbCapable
       THEN 1 ELSE 0

\* Mutant of createWithSettings: a context that does not meet the request is
\* given up
createWithSettingsStrict(requested, driver, loaded, enabled) ==
    LET m == initializeSettings(requested, driver, enabled)
    IN IF ~loaded \/ checkSettings(m, requested) = 1
       THEN [ret |-> FALSE, diagnostics |-> 0]
       ELSE [ret |-> TRUE, settings |-> m, diagnostics |-> checkSettings(m, requested)]

\* GlContext::create with requested settings: ret is whether the result is
\* non-null, settings what getSettings() of the result reports, diagnostics
\* the number of warnings written by checkSettings.  loaded is whether
\* initialize could load the GL entry points it needs.
createWithSettings(requested, driver, loaded, enabled) ==
    LET m == initializeSettings(requested, driver, enabled)
    IN IF ~loaded
       THEN [ret |-> FALSE, diagnostics |-> 0]
       ELSE [ret |-> TRUE, settings |-> m, diagnostics |-> checkSettings(m, requested)]

InitSettings ==
    /\ InitProgram
    /\ call \in [f : {"create"}, pc : {"called"},
                 requested : RequestedSettings, driver : DriverSettings]

\* The call of create returns
CreateWithSettings(loaded, enabled) ==
    /\ call.f = "create"
    /\ call.pc = "called"
    /\ LET r == createWithSettings(call.requested, call.driver, loaded, enabled)
       IN call' = [f |-> "create", pc |-> "returned", requested |-> call.requested,
                   driver |-> call.driver, loaded |-> loaded, result |-> r]
    /\ UNCHANGED <<currentContext, transientContext, platCur, mutex, atomicId, created,
                   alive, shared, unsharedGlObjects, listOf, pc, obj, scopes, run, last,
                   window, calls, slowScope, registry>>

NextSettings == \E loaded \in BOOLEAN, enabled \in BOOLEAN : CreateWithSettings(loaded, enabled)

SpecSettings == InitSettings /\ [][NextSettings]_vars

Returned(f) == call.f = f /\ call.pc = "returned"

\* The version a.b is lower than the version c.d
VersionLower(a, b, c, d) == a < c \/ (a = c /\ b < d)

\* The driver grants less than the request in some dimension
Shortfall(requested, driver) ==
    \/ VersionLower(driver.majorVersion, driver.minorVersion,
                    requested.majorVersion, requested.minorVersion)
    \/ driver.depthBits < requested.depthBits
    \/ driver.stencilBits < requested.stencilBits
    \/ driver.antialiasingLevel < requested.antialiasingLevel
    \/ ~(requested.attributeFlags \subseteq attributeFlagsOf(driver))
    \/ requested.sRgbCapable /\ ~driver.sRgbCapable

\* C21: a negotiation shortfall never fails creation: when the driver grants
\* less than the request in some dimension and the GL entry points load,
\* create returns a non-null context, and getSettings() reports the granted
\* value in every dimension of the shortfall and never more than was granted.
C21_ShortfallDoesNotFailCreation ==
    (Returned("create") /\ call.loaded /\ Shortfall(call.requested, call.driver)) =>
        /\ call.result.ret
        /\ LET s == call.result.settings
               r == call.requested
               d == call.driver
           IN /\ s.depthBits = d.depthBits
              /\ s.stencilBits = d.stencilBits
              /\ s.majorVersion = d.majorVersion /\ s.minorVersion = d.minorVersion
              /\ s.attributeFlags = attributeFlagsOf(d)
              /\ s.antialiasingLevel <= d.antialiasingLevel
              /\ d.antialiasingLevel < r.antialiasingLevel => s.antialiasingLevel = d.antialiasingLevel
              /\ s.sRgbCapable => d.sRgbCapable

\* C21 witness: 24 depth bits and 4x antialiasing were requested, 16 and 0
\* were granted, and create returned a context that reports 16 and 0.
C21_Witness ==
    /\ Returned("create") /\ call.result.ret
    /\ call.requested.depthBits = 24 /\ call.requested.antialiasingLevel = 4
    /\ call.driver.depthBits = 16 /\ call.driver.antialiasingLevel = 0
    /\ call.result.settings.depthBits = 16 /\ call.result.settings.antialiasingLevel = 0

----------------------------------------------------------------------------
\* The negotiated settings m are weaker than the request in some dimension
Weaker(m, requested) ==
    \/ VersionLower(m.majorVersion, m.minorVersion, requested.majorVersion, requested.minorVersion)
    \/ m.depthBits < requested.depthBits
    \/ m.stencilBits < requested.stencilBits
    \/ m.antialiasingLevel < requested.antialiasingLevel
    \/ ~(requested.attributeFlags \subseteq m.attributeFlags)
    \/ requested.sRgbCapable /\ ~m.sRgbCapable

C22_Counterexample ==
    /\ Returned("create") /\ call.result.ret
    /\ ~Weaker(call.result.settings, call.requested)
    /\ call.result.diagnostics = 1

----------------------------------------------------------------------------
\* A step in which create of thread t returns nullptr
CreateFails(t) ==
    \E ok \in BOOLEAN, ok1 \in BOOLEAN, ok2 \in BOOLEAN : CreateInitialize(t, ok, FALSE, ok1, ok2)

\* What holds of the failed context obj[t] and of the process in all cases
\* when create of thread t returns nullptr
FailedCreateIsLocal(t) ==
    /\ \A u \in Threads : CanLock(mutex', u)
    /\ \A u \in Threads : /\ currentContext'[u].id # obj[t]
                          /\ currentContext'[u].ptr # obj[t]
    /\ obj[t] \notin alive'
    /\ unsharedGlObjects' = unsharedGlObjects
    /\ shared \in alive'

C23_Counterexample ==
    /\ last.op = "create" /\ ~last.ret
    /\ getActiveContextId(last.t) = shared
    /\ mutex.owner = NoThread

----------------------------------------------------------------------------
\* Concurrent calls of GlContext::create

\* The create calls that have not constructed their context object yet
Pending == Cardinality({u \in Threads : pc[u] \in {"calling", "locked", "activated"}})

\* A thread calls GlContext::create: it waits at the lock_guard
CreateCall(t) ==
    /\ shared # 0
    /\ pc[t] = "idle"
    /\ atomicId + Pending <= MaxId
    /\ pc' = [pc EXCEPT ![t] = "calling"]
    /\ Commit(World) /\ Done("create:call", t, 0, FALSE, World)
    /\ UNCHANGED <<atomicId, created, shared, obj, scopes>>

\* The steps of create once the lock is held
CreateSteps(t) ==
    \/ \E ok \in BOOLEAN : CreateActivateShared(t, ok)
    \/ CreateMake(t)
    \/ \E ok \in BOOLEAN : CreateDeactivateShared(t, ok)
    \/ \E ok \in BOOLEAN, loaded \in BOOLEAN, ok1 \in BOOLEAN, ok2 \in BOOLEAN :
          CreateInitialize(t, ok, loaded, ok1, ok2)

NextCreate ==
    \/ \E t \in Threads : GraphicsContextCtor(t)
    \/ \E t \in Threads : CreateCall(t)
    \/ \E t \in Threads : CreateLockFrom(t, "calling")
    \/ \E t \in Threads : CreateSteps(t)
    \/ \E t \in Threads, c \in Ids, ok1 \in BOOLEAN, ok2 \in BOOLEAN : Destroy(t, c, ok1, ok2)
    \/ \E t \in Threads : Register(t, "h1")
    \/ \E t \in Threads : Unregister(t, "h1")

\* The steps of a create call of thread t that was announced
CreateRuns(t) == CreateLockFrom(t, "calling") \/ CreateSteps(t)

\* Fair scheduling: a thread that can go on with its create call, because it
\* is inside the locked region or because it waits for the lock and the lock
\* stays free, eventually does
SpecCreate ==
    /\ Init
    /\ [][NextCreate]_vars
    /\ \A t \in Threads : WF_vars(CreateRuns(t))

----------------------------------------------------------------------------
\* Native function-pointer lookups

\* Mutant of getFunctionNeedsLock: the lookup does not wait for the lock
getFunctionWithoutLock(w, t) == FALSE

\* GlContext::getFunction blocks until the recursive lock is free
getFunctionNeedsLock(w, t) == TRUE

\* GlContext::getFunction: the lookup is made with the lock held, and the
\* unique_lock releases it on return
getFunction(w, t) == [w EXCEPT !.mu = Unlock(Lock(@, t), t), !.lk = TRUE]

\* A call of GlContext::getFunction
GetFunction(t) ==
    /\ shared # 0
    /\ pc[t] = "idle"
    /\ getFunctionNeedsLock(World, t) => CanLock(mutex, t)
    /\ LET w == getFunction(World, t)
       IN Commit(w) /\ Done("getFunction", t, 0, FALSE, w)
    /\ UNCHANGED <<atomicId, created, shared, pc, obj, scopes>>

\* The program with the function-pointer lookups and without the calls on the
\* list of unshared GL objects
NextLookup ==
    \/ \E t \in Threads : atomicId <= MaxRegistryId /\ GraphicsContextCtor(t)
    \/ \E t \in Threads, c \in Ids, active \in BOOLEAN, ok \in BOOLEAN : SetActive(t, c, active, ok)
    \/ \E t \in Threads, ok \in BOOLEAN : AcquireTransient(t, ok)
    \/ \E t \in Threads, ok \in BOOLEAN : ReleaseTransient(t, ok)
    \/ \E t \in Threads : atomicId <= MaxRegistryId /\ CreateLock(t)
    \/ \E t \in Threads : CreateSteps(t)
    \/ \E t \in Threads, c \in Ids, ok1 \in BOOLEAN, ok2 \in BOOLEAN : Destroy(t, c, ok1, ok2)
    \/ \E t \in Threads : GetFunction(t)

SpecLookup == Init /\ [][NextLookup]_vars

\* Thread t is inside create
InCreate(t) == pc[t] \in {"locked", "activated", "made", "deactivated"}

\* Thread t is between the activation and the deactivation of the shared
\* context in create
SharedInUse(t) == pc[t] \in {"activated", "made"}

----------------------------------------------------------------------------
\* The cleared record of thread t
Cleared(t) == [currentContext[t] EXCEPT !.id = 0, !.ptr = 0]

----------------------------------------------------------------------------
\* Lifetime of the list of unshared GL objects

\* GraphicsContext::~GraphicsContext: destroys the shared context, once every
\* other context is destroyed and no thread is inside a call or has the
\* shared context active
GraphicsContextDtor(t, ok1, ok2) ==
    /\ shared # 0
    /\ alive = {shared}
    /\ \A u \in Threads : pc[u] = "idle" /\ scopes[u] = 0
    /\ \A u \in Threads \ {t} : currentContext[u].id # shared
    /\ mutex.owner = NoThread
    /\ ok1 \in Outcomes(cleanupNeedsLock(World, t, shared))
    /\ ok2 \in Outcomes(cleanupNeedsLock(World, t, shared) /\ currentContext[t].ptr # 0)
    /\ LET w == destroyContext(World, t, shared, ok1, ok2)
       IN Commit(w) /\ Done("~GraphicsContext", t, shared, FALSE, w)
    /\ shared' = 0
    /\ UNCHANGED <<atomicId, created, pc, obj, scopes>>

\* The program with the destruction of the GraphicsContext
NextLists ==
    \/ \E t \in Threads : GraphicsContextCtor(t)
    \/ \E t \in Threads, ok1 \in BOOLEAN, ok2 \in BOOLEAN : GraphicsContextDtor(t, ok1, ok2)
    \/ \E t \in Threads : CreateLock(t)
    \/ \E t \in Threads : CreateSteps(t)
    \/ \E t \in Threads, c \in Ids, ok1 \in BOOLEAN, ok2 \in BOOLEAN : Destroy(t, c, ok1, ok2)
    \/ \E t \in Threads, h \in Registrable : Register(t, h)
    \/ \E t \in Threads, h \in Registrable : Unregister(t, h)

SpecLists == Init /\ [][NextLists]_vars

\* C27: all contexts alive at the same time hold one and the same list; the
\* list exists exactly as long as at least one context is alive; and the
\* first context constructed after every earlier context was destroyed gets
\* a new, empty list.
C27_OneListPerGeneration ==
    /\ [](\A c \in alive : listOf.held[c] # 0 /\ \A d \in alive : listOf.held[c] = listOf.held[d])
    /\ []((weakLock(listOf) # 0) <=> (alive # {}))
    /\ [](alive = {} => unsharedGlObjects = <<>>)
    /\ [][(alive = {} /\ alive' # {}) =>
             /\ listOf'.gen = listOf.gen + 1
             /\ \A c \in alive' : listOf'.held[c] = listOf'.gen
             /\ unsharedGlObjects' = <<>>]_vars

\* C27 witness: every context of the first generation was destroyed, and two
\* contexts constructed since hold the second list, which has an entry.
C27_Witness ==
    /\ listOf.gen = 2
    /\ Cardinality(alive) = 2
    /\ \A c \in alive : listOf.held[c] = 2
    /\ unsharedGlObjects # <<>>

----------------------------------------------------------------------------
\* sf::Window (src/SFML/Window/Window.cpp)

\* Window::setActive(active) on thread t
windowSetActive(w, t, win, active, ok) ==
    IF win.context # 0
    THEN setActive(w, t, win.context, active, ok)
    ELSE [w EXCEPT !.ret = FALSE]

\* Mutant of windowDisplay: the context's display() is called whenever the
\* window has a context
windowDisplayUnchecked(w, t, win, ok) ==
    LET a == windowSetActive(w, t, win, TRUE, ok)
    IN [world |-> a, displayed |-> win.context # 0]

\* Window::display() on thread t: world is the state after the call,
\* displayed whether m_commonImpl->context->display() was called
windowDisplay(w, t, win, ok) ==
    LET a == windowSetActive(w, t, win, TRUE, ok)
    IN [world |-> a, displayed |-> a.ret]

\* The Window constructor stores the result of GlContext::create
WindowOpen(t) ==
    /\ pc[t] = "idle"
    /\ window.context = 0
    /\ last.op = "create" /\ last.t = t /\ last.ret
    /\ window' = [window EXCEPT !.context = last.c]
    /\ slowScope' = slowScope /\ registry' = registry
    /\ Commit(World) /\ Record("Window", t, last.c, FALSE, World)
    /\ UNCHANGED <<atomicId, created, shared, pc, obj, scopes>>

\* The contexts the callers hold themselves: the window's is held by the window
Held == Usable \ {window.context}

\* A call of GlContext::setActive on a context the caller holds itself
SetActiveHeld(t, c, active, ok) == c \in Held /\ SetActive(t, c, active, ok)

\* A call of Window::setActive
WindowSetActive(t, active, ok) ==
    /\ shared # 0
    /\ pc[t] = "idle"
    /\ window.context # 0 =>
          /\ ok \in Outcomes(setActiveNeedsLock(World, t, window.context, active))
          /\ setActiveNeedsLock(World, t, window.context, active) => CanLock(mutex, t)
    /\ window.context = 0 => ok
    /\ LET w == windowSetActive(World, t, window, active, ok)
       IN Commit(w) /\ Record("Window::setActive", t, window.context, active, w)
    /\ window' = window
    /\ slowScope' = slowScope /\ registry' = registry
    /\ UNCHANGED <<atomicId, created, shared, pc, obj, scopes>>

\* A call of Window::display
WindowDisplay(t, ok) ==
    /\ shared # 0
    /\ pc[t] = "idle"
    /\ window.context # 0 =>
          /\ ok \in Outcomes(setActiveNeedsLock(World, t, window.context, TRUE))
          /\ setActiveNeedsLock(World, t, window.context, TRUE) => CanLock(mutex, t)
    /\ window.context = 0 => ok
    /\ LET d == windowDisplay(World, t, window, ok)
       IN /\ Commit(d.world) /\ Record("Window::display", t, window.context, TRUE, d.world)
          /\ window' = [window EXCEPT !.displayed = d.displayed]
          /\ slowScope' = slowScope /\ registry' = registry
    /\ UNCHANGED <<atomicId, created, shared, pc, obj, scopes>>

\* A call of Window::close: m_commonImpl->context.reset()
WindowClose(t, ok1, ok2) ==
    /\ pc[t] = "idle"
    /\ window.context # 0
    /\ ok1 \in Outcomes(cleanupNeedsLock(World, t, window.context))
    /\ ok2 \in Outcomes(cleanupNeedsLock(World, t, window.context) /\ currentContext[t].ptr # 0)
    /\ cleanupNeedsLock(World, t, window.context) => CanLock(mutex, t)
    /\ LET w == destroyContext(World, t, window.context, ok1, ok2)
       IN Commit(w) /\ Record("Window::close", t, window.context, FALSE, w)
    /\ window' = [context |-> 0, displayed |-> FALSE]
    /\ slowScope' = slowScope /\ registry' = registry
    /\ UNCHANGED <<atomicId, created, shared, pc, obj, scopes>>

\* The program with one window
NextWindow ==
    \/ \E t \in Threads : atomicId <= MaxRegistryId /\ GraphicsContextCtor(t)
    \/ \E t \in Threads : atomicId <= MaxRegistryId /\ CreateLock(t)
    \/ \E t \in Threads : CreateSteps(t)
    \/ \E t \in Threads, c \in Ids, active \in BOOLEAN, ok \in BOOLEAN : SetActiveHeld(t, c, active, ok)
    \/ \E t \in Threads : WindowOpen(t)
    \/ \E t \in Threads, active \in BOOLEAN, ok \in BOOLEAN : WindowSetActive(t, active, ok)
    \/ \E t \in Threads, ok \in BOOLEAN : WindowDisplay(t, ok)
    \/ \E t \in Threads, ok1 \in BOOLEAN, ok2 \in BOOLEAN : WindowClose(t, ok1, ok2)

SpecWindow == Init /\ [][NextWindow]_vars

\* C28: Window::setActive returns false when the window has no context and
\* otherwise exactly what the context's setActive returns (and does what it
\* does); Window::display calls the context's display only when that
\* activation returned true.
C28_WindowForwardsActivation ==
    [][\A t \in Threads, active \in BOOLEAN, ok \in BOOLEAN :
          /\ (last'.op = "Window::setActive" /\ WindowSetActive(t, active, ok)) =>
                IF window.context = 0
                THEN ~last'.ret /\ currentContext' = currentContext /\ platCur' = platCur
                ELSE /\ last'.ret = setActive(World, t, window.context, active, ok).ret
                     /\ currentContext' = setActive(World, t, window.context, active, ok).cur
          /\ (last'.op = "Window::display" /\ WindowDisplay(t, ok)) =>
                window'.displayed =
                    (window.context # 0 /\ setActive(World, t, window.context, TRUE, ok).ret)]_vars

\* C28 witness: display was called on a window whose context could not be
\* activated, and the context's display was not called.
C28_Witness ==
    /\ last.op = "Window::display"
    /\ window.context # 0
    /\ ~last.ret
    /\ ~window.displayed

----------------------------------------------------------------------------
\* sf::VertexBuffer::update, on values.  A buffer is [buffer, size]: m_buffer
\* (0 before create) and m_size.  The sum offset + vertexCount is computed in
\* std::size_t, which the values used here do not overflow.  af is whether
\* the assertion that a GL context is active was reached and failed (the call
\* goes on when assertions are compiled out).

\* The buffers a caller can have: m_size is 0 while m_buffer is 0
VertexBuffers ==
    {vb \in [buffer : {0, 1}, size : 0..MaxVertexCount] : vb.buffer = 0 => vb.size = 0}

\* Mutant of update: the range is not checked
updateWithoutRangeCheck(vb, vertices, vertexCount, offset, active) ==
    IF vb.buffer = 0 THEN [ret |-> FALSE, vb |-> vb, af |-> FALSE]
    ELSE IF ~vertices THEN [ret |-> FALSE, vb |-> vb, af |-> FALSE]
    ELSE [ret |-> TRUE, af |-> ~active,
          vb |-> IF vertexCount >= vb.size THEN [vb EXCEPT !.size = vertexCount] ELSE vb]

\* VertexBuffer::update(vertices, vertexCount, offset); vertices is whether
\* the pointer is non-null, active whether a GL context is active
update(vb, vertices, vertexCount, offset, active) ==
    IF vb.buffer = 0 THEN [ret |-> FALSE, vb |-> vb, af |-> FALSE]
    ELSE IF ~vertices THEN [ret |-> FALSE, vb |-> vb, af |-> FALSE]
    ELSE IF offset # 0 /\ offset + vertexCount > vb.size
    THEN [ret |-> FALSE, vb |-> vb, af |-> FALSE]
    ELSE [ret |-> TRUE, af |-> ~active,
          vb |-> IF vertexCount >= vb.size THEN [vb EXCEPT !.size = vertexCount] ELSE vb]

InitVertexBuffer ==
    /\ InitProgram
    /\ call \in [f : {"update"}, pc : {"called"}, vb : VertexBuffers, vertices : BOOLEAN,
                 vertexCount : 0..(MaxVertexCount + 1), offset : 0..(MaxVertexCount + 1),
                 active : BOOLEAN]

\* The call of update returns
VertexBufferUpdate ==
    /\ call.f = "update"
    /\ call.pc = "called"
    /\ call' = [f |-> "update", pc |-> "returned", vb |-> call.vb, vertices |-> call.vertices,
                vertexCount |-> call.vertexCount, offset |-> call.offset,
                active |-> call.active,
                result |-> update(call.vb, call.vertices, call.vertexCount, call.offset,
                                  call.active)]
    /\ UNCHANGED <<currentContext, transientContext, platCur, mutex, atomicId, created,
                   alive, shared, unsharedGlObjects, listOf, pc, obj, scopes, run, last,
                   window, calls, slowScope, registry>>

SpecVertexBuffer == InitVertexBuffer /\ [][VertexBufferUpdate]_vars

\* The call returned false and left the vertex count and the native handle
\* as they were
Rejected == ~call.result.ret /\ call.result.vb = call.vb /\ ~call.result.af

\* C29 as stated: update returns false and leaves the vertex count and the
\* native handle unchanged whenever offset + vertexCount exceeds the current
\* vertex count.
C29_Original ==
    (Returned("update") /\ call.offset + call.vertexCount > call.vb.size) => Rejected

\* C29: update returns false and leaves the vertex count and the native
\* handle unchanged whenever offset is not 0 and offset + vertexCount exceeds
\* the current vertex count; with offset 0 on a created buffer and non-null
\* vertices it returns true, and a larger vertexCount becomes the vertex count.
C29_UpdateRejectsOutOfRange ==
    Returned("update") =>
        /\ (call.offset # 0 /\ call.offset + call.vertexCount > call.vb.size) => Rejected
        /\ (call.offset = 0 /\ call.vb.buffer # 0 /\ call.vertices) =>
              /\ call.result.ret
              /\ call.result.vb.buffer = call.vb.buffer
              /\ call.result.vb.size = IF call.vertexCount > call.vb.size
                                       THEN call.vertexCount ELSE call.vb.size

\* C29 witness: on a created buffer, with non-null vertices, an update whose
\* offset is not 0 and whose range ends past the vertex count was rejected.
C29_Witness ==
    /\ Returned("update")
    /\ call.vb.buffer # 0 /\ call.vertices
    /\ call.offset # 0 /\ call.offset <= call.vb.size
    /\ call.offset + call.vertexCount > call.vb.size
    /\ Rejected

----------------------------------------------------------------------------
\* The context that the capability queries of GlContext::initialize act on:
\* the one current at the platform level after initialize tried to activate
\* the new context (0: the GL calls are made with no context current)
probedContext(w, t, c, ok) == setActive(w, t, c, TRUE, ok).plat[t]

\* C30 as stated: every capability query of GlContext::initialize runs while
\* the context being initialized is the active context of the creating
\* thread; when activating the new context fails, no probing is performed
\* against another context (or against none).  The queries run whenever the
\* GL entry points were loaded.
C30_Original ==
    [][\A t \in Threads, ok, ok1, ok2 \in BOOLEAN :
         CreateInitialize(t, ok, TRUE, ok1, ok2)
            => /\ setActive(World, t, obj[t], TRUE, ok).cur[t].id = obj[t]
               /\ probedContext(World, t, obj[t], ok) = obj[t]]_vars

----------------------------------------------------------------------------
\* GlContext::initialize on values: the version detection, the profile
\* detection and the antialiasing / sRGB negotiation.  A C string is the
\* sequence of its characters; the null pointer is Null, a sequence that is
\* no string because its element is not a character.

\* Cap on the characters that follow the head of a GL_VERSION string
MaxVersionTail == 3

Null == <<"nullptr">>

\* The characters '0' to '9' in the order of their codes
AsciiDigits == <<"0", "1", "2", "3", "4", "5", "6", "7", "8", "9">>

\* std::isdigit
isdigit(c) == \E i \in 1..Len(AsciiDigits) : AsciiDigits[i] = c

\* The code of a digit character ('0' is 48)
Ascii(c) == 47 + (CHOOSE i \in 1..Len(AsciiDigits) : AsciiDigits[i] = c)

\* static_cast<unsigned int> of an int that is not negative (the value is
\* kept; the version numbers and digit differences used here are in 0..9)
toUnsigned(n) == CHOOSE u \in 0..9 : u = n

\* std::strlen
strlen(s) == Len(s)

\* The character at index i (from 1) of a C string, the terminator past its end
charAt(s, i) == IF i <= Len(s) THEN s[i] ELSE "NUL"

\* std::strncmp(a, b, n) == 0
strncmpEqual(a, b, n) ==
    \A i \in 1..n : (\A j \in 1..(i - 1) : charAt(a, j) # "NUL") => charAt(a, i) = charAt(b, i)

PrefixEsCl == <<"O", "p", "e", "n", "G", "L", " ", "E", "S", "-", "C", "L", " ">>
PrefixEsCm == <<"O", "p", "e", "n", "G", "L", " ", "E", "S", "-", "C", "M", " ">>
PrefixEs == <<"O", "p", "e", "n", "G", "L", " ", "E", "S", " ">>
PrefixDesktop == <<>>

\* Mutant of parseVersionString: the prefix is not compared
parseVersionStringAnyPrefix(versionString, prefix, major, minor) ==
    LET prefixLength == strlen(prefix)
    IN IF /\ strlen(versionString) >= prefixLength + 3
          /\ isdigit(versionString[prefixLength + 1])
          /\ versionString[prefixLength + 2] = "."
          /\ isdigit(versionString[prefixLength + 3])
       THEN [ret |-> TRUE,
             major |-> toUnsigned(Ascii(versionString[prefixLength + 1]) - Ascii("0")),
             minor |-> toUnsigned(Ascii(versionString[prefixLength + 3]) - Ascii("0"))]
       ELSE [ret |-> FALSE, major |-> major, minor |-> minor]

\* The lambda parseVersionString of initialize; major and minor are passed by
\* reference and come back in the result
parseVersionString(versionString, prefix, major, minor) ==
    LET prefixLength == strlen(prefix)
    IN IF /\ strlen(versionString) >= prefixLength + 3
          /\ strncmpEqual(versionString, prefix, prefixLength)
          /\ isdigit(versionString[prefixLength + 1])
          /\ versionString[prefixLength + 2] = "."
          /\ isdigit(versionString[prefixLength + 3])
       THEN [ret |-> TRUE,
             major |-> toUnsigned(Ascii(versionString[prefixLength + 1]) - Ascii("0")),
             minor |-> toUnsigned(Ascii(versionString[prefixLength + 3]) - Ascii("0"))]
       ELSE [ret |-> FALSE, major |-> major, minor |-> minor]

\* The version detection of initialize: major and minor are what the
\* GL_MAJOR_VERSION and GL_MINOR_VERSION queries wrote, error is what
\* glGetError returned, version is what glGetString(GL_VERSION) returns.
\* diagnostics is the number of messages written.
initializeVersion(major, minor, error, version) ==
    IF error # "GL_INVALID_ENUM"
    THEN [majorVersion |-> toUnsigned(major), minorVersion |-> toUnsigned(minor), diagnostics |-> 0]
    ELSE IF version = Null
    THEN [majorVersion |-> 1, minorVersion |-> 1, diagnostics |-> 1]
    ELSE LET p1 == parseVersionString(version, PrefixEsCl, 1, 1)
             p2 == parseVersionString(version, PrefixEsCm, p1.major, p1.minor)
             p3 == parseVersionString(version, PrefixEs, p2.major, p2.minor)
             p4 == parseVersionString(version, PrefixDesktop, p3.major, p3.minor)
             p == IF p1.ret THEN p1 ELSE IF p2.ret THEN p2 ELSE IF p3.ret THEN p3 ELSE p4
         IN [majorVersion |-> p.major, minorVersion |-> p.minor,
             diagnostics |-> IF p.ret THEN 0 ELSE 1]

\* The strings a driver can return for GL_VERSION: one of the four heads of
\* the comment of initialize, or a head that is none of them, followed by a
\* few characters
VersionHeads ==
    {PrefixEsCl, PrefixEsCm, PrefixEs, PrefixDesktop, <<"O", "p", "e", "n", "G", "L", " ", "E", "S", "-", "C", "X", " ">>, <<"O", "p", "e", "n", "G", "L", " ", "E", "S", "-", "C", "M">>}

VersionTails == UNION {[1..n -> {"3", "2", ".", "x"}] : n \in 0..MaxVersionTail}

VersionStrings == {h \o tl : h \in VersionHeads, tl \in VersionTails}

VersionCalls ==
    [f : {"initialize:version"}, pc : {"called"}, major : {3, 4}, minor : {0, 6},
     error : {"GL_NO_ERROR", "GL_INVALID_ENUM", "GL_INVALID_OPERATION"},
     version : VersionStrings \cup {Null}]

\* Cap on the entries of the extension-string table of a driver
MaxExtensions == 2

\* The needle of the extension scan
ArbCompatibility == <<"G", "L", "_", "A", "R", "B", "_", "c", "o", "m", "p", "a", "t", "i", "b", "i", "l", "i", "t", "y">>

\* std::strstr(haystack, needle) != nullptr
strstr(haystack, needle) ==
    \E i \in 0..(Len(haystack) - Len(needle)) : SubSeq(haystack, i + 1, i + Len(needle)) = needle

\* flags & bit, for a bit that is a power of two
hasBit(flags, bit) == (flags \div bit) % 2 = 1

GL_CONTEXT_FLAG_DEBUG_BIT == 2
GL_CONTEXT_CORE_PROFILE_BIT == 1

\* Mutant of initializeProfile: a 3.1 context is core whatever its extensions
initializeProfileWithoutScan(majorVersion, minorVersion, flags, stringi, extensions, profile) ==
    IF majorVersion >= 3
    THEN (IF hasBit(flags, GL_CONTEXT_FLAG_DEBUG_BIT) THEN {Debug} ELSE {}) \cup
         (IF majorVersion = 3 /\ minorVersion = 1
          THEN {Core}
          ELSE IF majorVersion > 3 \/ minorVersion >= 2
          THEN (IF hasBit(profile, GL_CONTEXT_CORE_PROFILE_BIT) THEN {Core} ELSE {})
          ELSE {})
    ELSE {}

\* The profile detection of initialize, the attribute flags it leaves in
\* m_settings: flags is the answer of the GL_CONTEXT_FLAGS query, stringi
\* whether glGetStringi could be loaded, extensions the table the
\* GL_NUM_EXTENSIONS and glGetStringi(GL_EXTENSIONS, i) queries walk through,
\* profile the answer of the GL_CONTEXT_PROFILE_MASK query
initializeProfile(majorVersion, minorVersion, flags, stringi, extensions, profile) ==
    IF majorVersion >= 3
    THEN (IF hasBit(flags, GL_CONTEXT_FLAG_DEBUG_BIT) THEN {Debug} ELSE {}) \cup
         (IF majorVersion = 3 /\ minorVersion = 1
          THEN (IF stringi /\ \E i \in 1..Len(extensions) : strstr(extensions[i], ArbCompatibility)
                THEN {} ELSE {Core})
          ELSE IF majorVersion > 3 \/ minorVersion >= 2
          THEN (IF hasBit(profile, GL_CONTEXT_CORE_PROFILE_BIT) THEN {Core} ELSE {})
          ELSE {})
    ELSE {}

\* The extension strings of a driver: the needle, a string that contains it,
\* a string that is a part of it, and another extension
ExtensionStrings ==
    {ArbCompatibility, <<"x", "G", "L", "_", "A", "R", "B", "_", "c", "o", "m", "p", "a", "t", "i", "b", "i", "l", "i", "t", "y">>, <<"G", "L", "_", "A", "R", "B", "_", "c", "o", "m", "p", "a", "t">>, <<"G", "L", "_", "E", "X", "T", "_", "x">>}

ExtensionTables == UNION {[1..n -> ExtensionStrings] : n \in 0..MaxExtensions}

ProfileCalls ==
    [f : {"initialize:profile"}, pc : {"called"}, majorVersion : {2, 3, 4},
     minorVersion : {0, 1, 2}, flags : 0..3, stringi : BOOLEAN,
     extensions : ExtensionTables, profile : 0..2]

\* The calls of the antialiasing and sRGB part of initialize: what was
\* requested and what the platform granted of the two, and the answer of
\* glIsEnabled(GL_FRAMEBUFFER_SRGB)
EnableCalls ==
    [f : {"initialize:enable"}, pc : {"called"},
     requested : {r \in RequestedSettings :
                     /\ r.depthBits = 24 /\ r.majorVersion = 3 /\ r.minorVersion = 3
                     /\ r.attributeFlags = {}},
     driver : {d \in DriverSettings :
                  /\ d.depthBits = 24 /\ d.stencilBits = 8
                  /\ d.majorVersion = 3 /\ d.minorVersion = 3
                  /\ ~d.debugBit /\ ~d.coreProfile /\ ~d.arbCompatibility},
     enabled : BOOLEAN]

InitInitialize ==
    /\ InitProgram
    /\ call \in VersionCalls \cup ProfileCalls \cup EnableCalls

\* The call returns with the result r
ReturnWith(r) ==
    /\ call.pc = "called"
    /\ call' = [x \in DOMAIN call \cup {"result"} |->
                   IF x = "result" THEN r ELSE IF x = "pc" THEN "returned" ELSE call[x]]
    /\ UNCHANGED <<currentContext, transientContext, platCur, mutex, atomicId, created,
                   alive, shared, unsharedGlObjects, listOf, pc, obj, scopes, run, last,
                   window, calls, slowScope, registry>>

\* initialize detects the version
InitializeVersion ==
    /\ call.f = "initialize:version"
    /\ ReturnWith(initializeVersion(call.major, call.minor, call.error, call.version))

\* initialize detects the profile
InitializeProfile ==
    /\ call.f = "initialize:profile"
    /\ ReturnWith(initializeProfile(call.majorVersion, call.minorVersion, call.flags,
                                    call.stringi, call.extensions, call.profile))

\* initialize enables antialiasing and sRGB
InitializeEnable ==
    /\ call.f = "initialize:enable"
    /\ ReturnWith(initializeSettings(call.requested, call.driver, call.enabled))

NextInitialize == InitializeVersion \/ InitializeProfile \/ InitializeEnable

SpecInitialize == InitInitialize /\ [][NextInitialize]_vars

\* The string s has a single-digit major.minor directly after the prefix p
HasVersionAfter(s, p) ==
    /\ Len(s) >= Len(p) + 3
    /\ SubSeq(s, 1, Len(p)) = p
    /\ s[Len(p) + 1] \in {AsciiDigits[i] : i \in 1..10}
    /\ s[Len(p) + 2] = "."
    /\ s[Len(p) + 3] \in {AsciiDigits[i] : i \in 1..10}

\* The number a digit character stands for
NumberOf(c) == CHOOSE n \in 0..9 : AsciiDigits[n + 1] = c

VersionPrefixes == <<PrefixEsCl, PrefixEsCm, PrefixEs, PrefixDesktop>>

\* The prefixes of the list after which the string has a major.minor
Matching(s) == {i \in 1..4 : HasVersionAfter(s, VersionPrefixes[i])}

\* C31: the negotiated version is the result of the integer queries unless
\* glGetError reports an invalid-enum error; then it is the single-digit
\* major.minor directly after the first matching prefix among "OpenGL ES-CL ",
\* "OpenGL ES-CM ", "OpenGL ES " and the empty prefix, and 1.1 when the
\* version string is absent or matches none of the four patterns.
C31_VersionNegotiation ==
    Returned("initialize:version") =>
        LET r == call.result
            s == call.version
        IN IF call.error # "GL_INVALID_ENUM"
           THEN r.majorVersion = call.major /\ r.minorVersion = call.minor
           ELSE IF s = Null \/ Matching(s) = {}
           THEN r.majorVersion = 1 /\ r.minorVersion = 1
           ELSE LET i == CHOOSE i \in Matching(s) : \A j \in Matching(s) : i <= j
                    n == Len(VersionPrefixes[i])
                IN /\ r.majorVersion = NumberOf(s[n + 1])
                   /\ r.minorVersion = NumberOf(s[n + 3])

\* C31 witness: the integer queries ended with an invalid-enum error, the
\* version string was "OpenGL ES-CM 3.2" and the detected version is 3.2.
C31_Witness ==
    /\ Returned("initialize:version")
    /\ call.error = "GL_INVALID_ENUM"
    /\ call.version = PrefixEsCm \o <<"3", ".", "2">>
    /\ call.result.majorVersion = 3 /\ call.result.minorVersion = 2

----------------------------------------------------------------------------
\* The version a.b is at least the version c.d
VersionAtLeast(a, b, c, d) == ~VersionLower(a, b, c, d)

\* Some extension string of the driver contains GL_ARB_compatibility
ListsCompatibility(extensions) ==
    \E i \in 1..Len(extensions) :
        \E j \in 1..Len(extensions[i]) :
            /\ j + Len(ArbCompatibility) - 1 <= Len(extensions[i])
            /\ \A k \in 1..Len(ArbCompatibility) : extensions[i][j + k - 1] = ArbCompatibility[k]

\* The Debug attribute is set iff the version is at least 3.0 and the context
\* flags have the debug bit
DebugAsStated ==
    (Debug \in call.result) <=>
        /\ VersionAtLeast(call.majorVersion, call.minorVersion, 3, 0)
        /\ call.flags \in {2, 3}

\* C32 as stated: after initialize, Debug is set iff the version is >= 3.0
\* and the context flags have the debug bit; Core is set iff the version is
\* exactly 3.1 and no extension string contains GL_ARB_compatibility, or the
\* version is >= 3.2 and the profile mask has the core-profile bit; below 3.0
\* the attribute flags are Default.
C32_Original ==
    Returned("initialize:profile") =>
        /\ DebugAsStated
        /\ (Core \in call.result) <=>
              \/ /\ call.majorVersion = 3 /\ call.minorVersion = 1
                 /\ ~ListsCompatibility(call.extensions)
              \/ /\ VersionAtLeast(call.majorVersion, call.minorVersion, 3, 2)
                 /\ call.profile \in {1, 3}
        /\ VersionLower(call.majorVersion, call.minorVersion, 3, 0) => call.result = {}

\* C32: after initialize, Debug is set iff the version is >= 3.0 and the
\* context flags have the debug bit; Core is set iff the version is exactly
\* 3.1 and either glGetStringi cannot be loaded or no extension string
\* contains GL_ARB_compatibility, or the version is >= 3.2 and the profile
\* mask has the core-profile bit; below 3.0 the attribute flags are Default.
C32_ProfileByVersionBracket ==
    Returned("initialize:profile") =>
        /\ DebugAsStated
        /\ (Core \in call.result) <=>
              \/ /\ call.majorVersion = 3 /\ call.minorVersion = 1
                 /\ ~call.stringi \/ ~ListsCompatibility(call.extensions)
              \/ /\ VersionAtLeast(call.majorVersion, call.minorVersion, 3, 2)
                 /\ call.profile \in {1, 3}
        /\ VersionLower(call.majorVersion, call.minorVersion, 3, 0) => call.result = {}

\* C32 witness: a 3.1 context with the debug bit whose second extension
\* string contains GL_ARB_compatibility, glGetStringi loaded: Debug is set
\* and Core is not.
C32_Witness ==
    /\ Returned("initialize:profile")
    /\ call.majorVersion = 3 /\ call.minorVersion = 1
    /\ call.flags = 2 /\ call.stringi
    /\ Len(call.extensions) = 2
    /\ ~ListsCompatibility(<<call.extensions[1]>>)
    /\ ListsCompatibility(<<call.extensions[2]>>)
    /\ call.extensions[2] # ArbCompatibility
    /\ call.result = {Debug}

----------------------------------------------------------------------------
\* C33: after initialize, the negotiated antialiasing level is the granted
\* level if both the requested and the granted level are nonzero and 0
\* otherwise, and sRgbCapable is true iff sRGB was requested, granted, and
\* reported enabled by the re-query after glEnable.
C33_EnabledOnlyIfRequestedAndGranted ==
    Returned("initialize:enable") =>
        /\ call.result.antialiasingLevel =
              IF call.requested.antialiasingLevel # 0 /\ call.driver.antialiasingLevel # 0
              THEN call.driver.antialiasingLevel ELSE 0
        /\ call.result.sRgbCapable <=>
              (call.requested.sRgbCapable /\ call.driver.sRgbCapable /\ call.enabled)

\* C33 witness: antialiasing was granted but not requested, sRGB was
\* requested and granted but the re-query reported it disabled; the
\* negotiated settings have level 0 and no sRGB.
C33_Witness ==
    /\ Returned("initialize:enable")
    /\ call.requested.antialiasingLevel = 0 /\ call.driver.antialiasingLevel = 4
    /\ call.requested.sRgbCapable /\ call.driver.sRgbCapable /\ ~call.enabled
    /\ call.result.antialiasingLevel = 0 /\ ~call.result.sRgbCapable

----------------------------------------------------------------------------
\* The holders of the recursive lock on thread t that are still open: the
\* TransientContext of a slow-path scope and a create call under way
LockNesting(t) ==
    (IF transientContext[t] THEN 1 ELSE 0) + (IF InCreate(t) THEN 1 ELSE 0)

\* Thread t, which holds the lock and is not inside a call, is not blocked
\* from calling getFunction, setActive on a context it holds, or create
NestedCallsEnabled(t) ==
    /\ ENABLED GetFunction(t)
    /\ \A c \in Usable, active \in BOOLEAN : ENABLED SetActive(t, c, active, TRUE)
    /\ atomicId <= MaxRegistryId => ENABLED CreateLock(t)

\* C34: a thread that holds the shared-context lock (inside create or inside
\* a slow-path transient scope) calls setActive, getFunction and create
\* without blocking on itself; each such nested call leaves the recursion
\* depth of the lock as it found it (create raises it by one on entry and
\* lowers it by one on return), so the depth is the number of open holders
\* and the lock is free only when the outermost holder has released it.
C34_RecursiveLockNesting ==
    /\ [](\A t \in Threads : HeldDepth(mutex, t) = LockNesting(t))
    /\ [](\A t \in Threads : (mutex.owner = t /\ pc[t] = "idle") => NestedCallsEnabled(t))
    /\ [][\A t \in Threads :
             (last'.t = t /\ HeldDepth(mutex, t) > 0) =>
                 /\ last'.op \in {"setActive", "getFunction", "create:activate",
                                  "create:make", "create:deactivate"} => mutex' = mutex
                 /\ last'.op = "create:lock" => mutex' = [mutex EXCEPT !.depth = @ + 1]
                 /\ last'.op = "create" =>
                       IF mutex.depth > 1 THEN mutex' = [mutex EXCEPT !.depth = @ - 1]
                       ELSE mutex'.owner = NoThread]_vars

\* C34 witness: a thread inside a slow-path transient scope has just returned
\* from a create call that gave it a context, and holds the lock at depth 1.
C34_Witness ==
    /\ last.op = "create" /\ last.ret
    /\ transientContext[last.t] /\ scopes[last.t] > 0
    /\ mutex = [owner |-> last.t, depth |-> 1]
    /\ \E u \in Threads \ {last.t} : hasActiveContext(u)

----------------------------------------------------------------------------
\* C37 as stated: after create returns a non-null context on thread t, that
\* context is t's active context, whatever was active on t before the call,
\* and t's transient nesting counter is unchanged.
C37_Original ==
    [][\A t \in Threads :
         (last'.op = "create" /\ last'.t = t /\ last'.ret) =>
             /\ ActiveIdAfter(t) = last'.c
             /\ ActivePtrAfter(t) = last'.c
             /\ currentContext'[t].transientCount = currentContext[t].transientCount]_vars

----------------------------------------------------------------------------
----------------------------------------------------------------------------
\* C39 as stated: no activation record ever dangles: in every reachable
\* state and for every thread, a nonzero active identity and the
\* active-context pointer of the thread's record belong to a context that is
\* still alive.
C39_Original ==
    \A t \in Threads :
        /\ currentContext[t].id # 0 => currentContext[t].id \in alive
        /\ currentContext[t].ptr # 0 => currentContext[t].ptr \in alive

----------------------------------------------------------------------------
\* GlContext::evaluateFormat on values

\* The largest number of bits of a requested or candidate value
MaxBits == 32

\* The range of int (32 bits, two's complement)
INT_MAX == 2147483647

INT_MIN == (-2147483647) - 1

\* The value x is representable as an int
InInt(x) == x >= INT_MIN /\ x <= INT_MAX

\* std::abs on int
abs(x) == IF x < 0 THEN 0 - x ELSE x

\* diff *= ((diff > 0) ? 100000 : 1)
weighDiff(diff) == diff * (IF diff > 0 THEN 100000 ELSE 1)

\* Mutant of evaluateFormat: a missing acceleration costs no more than a
\* missing sRGB capability
evaluateFormatWeakPenalty(bitsPerPixel, settings, colorBits, depthBits, stencilBits, antialiasing, accelerated, sRgb) ==
    LET colorDiff == weighDiff(bitsPerPixel - colorBits)
        depthDiff == weighDiff(settings.depthBits - depthBits)
        stencilDiff == weighDiff(settings.stencilBits - stencilBits)
        antialiasingDiff == weighDiff(settings.antialiasingLevel - antialiasing)
        sum == abs(colorDiff) + abs(depthDiff) + abs(stencilDiff) + abs(antialiasingDiff)
        withSrgb == IF settings.sRgbCapable /\ ~sRgb THEN sum + 10000000 ELSE sum
        score == IF ~accelerated THEN withSrgb + 10000000 ELSE withSrgb
    IN [score |-> score, overflow |-> FALSE]

\* GlContext::evaluateFormat: the score of a candidate format against the
\* request (lower is better), and whether an int operation on the way left
\* the range of int (signed overflow)
evaluateFormat(bitsPerPixel, settings, colorBits, depthBits, stencilBits, antialiasing, accelerated, sRgb) ==
    LET colorDiff0 == bitsPerPixel - colorBits
        depthDiff0 == settings.depthBits - depthBits
        stencilDiff0 == settings.stencilBits - stencilBits
        antialiasingDiff0 == settings.antialiasingLevel - antialiasing
        colorDiff == weighDiff(colorDiff0)
        depthDiff == weighDiff(depthDiff0)
        stencilDiff == weighDiff(stencilDiff0)
        antialiasingDiff == weighDiff(antialiasingDiff0)
        sum1 == abs(colorDiff) + abs(depthDiff)
        sum2 == sum1 + abs(stencilDiff)
        sum == sum2 + abs(antialiasingDiff)
        withSrgb == IF settings.sRgbCapable /\ ~sRgb THEN sum + 10000000 ELSE sum
        score == IF ~accelerated THEN withSrgb + 100000000 ELSE withSrgb
    IN [score |-> score,
        overflow |-> \E x \in {colorDiff0, depthDiff0, stencilDiff0, antialiasingDiff0,
                               colorDiff, depthDiff, stencilDiff, antialiasingDiff,
                               abs(colorDiff), abs(depthDiff), abs(stencilDiff),
                               abs(antialiasingDiff), sum1, sum2, sum, withSrgb, score} :
                         ~InInt(x)]

\* The requested values exercised
RequestedBits == {0, 8, MaxBits}

\* The candidate values exercised
FormatBits == {0, MaxBits}

\* The fields of ContextSettings that evaluateFormat reads
FormatRequests ==
    [depthBits : RequestedBits, stencilBits : RequestedBits,
     antialiasingLevel : RequestedBits, sRgbCapable : BOOLEAN]

\* A candidate pixel format as the platform reports it
PixelFormats ==
    [colorBits : FormatBits, depthBits : FormatBits, stencilBits : FormatBits,
     antialiasing : FormatBits, sRgb : BOOLEAN]

\* The calls of evaluateFormat exercised: one request scored against a
\* hardware-accelerated and a non-accelerated candidate
FormatCalls ==
    [f : {"evaluateFormat"}, pc : {"called"}, bitsPerPixel : RequestedBits,
     settings : FormatRequests, accelerated : PixelFormats, software : PixelFormats]

InitFormat ==
    /\ InitProgram
    /\ call \in FormatCalls

\* The score of the candidate format under the request of the call
scoreOf(format, accelerated) ==
    evaluateFormat(call.bitsPerPixel, call.settings, format.colorBits, format.depthBits,
                   format.stencilBits, format.antialiasing, accelerated, format.sRgb)

\* Both candidates are scored
EvaluateFormats ==
    /\ call.f = "evaluateFormat"
    /\ ReturnWith([accelerated |-> scoreOf(call.accelerated, TRUE),
                   software |-> scoreOf(call.software, FALSE)])

NextFormat == EvaluateFormats

SpecFormat == InitFormat /\ [][NextFormat]_vars

\* C40: evaluateFormat prefers hardware acceleration over every other
\* feature: for requested and candidate values within 0..MaxBits, an
\* accelerated format gets a strictly lower score than a non-accelerated
\* one, whatever their sRGB capability, and no int operation of the
\* computation overflows.
C40_AccelerationFirst ==
    Returned("evaluateFormat") =>
        /\ call.result.accelerated.score < call.result.software.score
        /\ ~call.result.accelerated.overflow /\ ~call.result.software.overflow
        /\ InInt(call.result.accelerated.score) /\ InInt(call.result.software.score)
        /\ call.result.accelerated.score >= 0 /\ call.result.software.score >= 0

\* C40 witness: the accelerated format misses every requested value and the
\* requested sRGB capability, the non-accelerated format matches the request
\* exactly; the accelerated one still scores lower.
C40_Witness ==
    /\ Returned("evaluateFormat")
    /\ call.bitsPerPixel = MaxBits /\ call.settings.depthBits = MaxBits
    /\ call.settings.stencilBits = MaxBits /\ call.settings.antialiasingLevel = MaxBits
    /\ call.settings.sRgbCapable
    /\ call.accelerated = [colorBits |-> 0, depthBits |-> 0, stencilBits |-> 0,
                           antialiasing |-> 0, sRgb |-> FALSE]
    /\ call.software = [colorBits |-> MaxBits, depthBits |-> MaxBits,
                        stencilBits |-> MaxBits, antialiasing |-> MaxBits, sRgb |-> TRUE]
    /\ call.result.accelerated.score = (4 * MaxBits * 100000) + 10000000
    /\ call.result.software.score = 100000000

----------------------------------------------------------------------------
\* Slow-path transient scopes

\* The acquire call about to run on thread t takes the slow path
takesSlowPath(t) == currentContext[t].id = 0

\* acquireTransientContext, remembering a scope that takes the slow path and
\* activates the shared context
AcquireScope(t, ok) ==
    /\ shared # 0
    /\ pc[t] = "idle"
    /\ OpenScopes < MaxScopes
    /\ NoScopeElsewhere(t)
    /\ ok \in Outcomes(acquireNeedsLock(World, t))
    /\ acquireNeedsLock(World, t) => CanLock(mutex, t)
    /\ LET w == acquireTransientContext(World, t, shared, ok)
       IN /\ Commit(w) /\ Record("acquire", t, 0, TRUE, w)
          /\ slowScope' = [slowScope EXCEPT ![t] =
                               IF @ = 0 /\ takesSlowPath(t) /\ w.cur[t].id = shared
                               THEN scopes[t] + 1 ELSE @]
    /\ scopes' = [scopes EXCEPT ![t] = @ + 1]
    /\ window' = window /\ registry' = registry
    /\ UNCHANGED <<atomicId, created, shared, pc, obj>>

\* The matching releaseTransientContext; the release of the remembered scope
\* ends it
ReleaseScope(t, ok) ==
    /\ pc[t] = "idle"
    /\ scopes[t] > 0
    /\ ok \in Outcomes(setActiveNeedsLock(World, t, shared, FALSE))
    /\ LET w == releaseTransientContext(World, t, shared, ok)
       IN Commit(w) /\ Record("release", t, 0, FALSE, w)
    /\ slowScope' = [slowScope EXCEPT ![t] = IF @ = scopes[t] THEN 0 ELSE @]
    /\ scopes' = [scopes EXCEPT ![t] = @ - 1]
    /\ window' = window /\ registry' = registry
    /\ UNCHANGED <<atomicId, created, shared, pc, obj>>

\* The program with the transient scopes remembered
NextScope ==
    \/ \E t \in Threads : atomicId <= MaxRegistryId /\ GraphicsContextCtor(t)
    \/ \E t \in Threads, c \in Ids, active \in BOOLEAN, ok \in BOOLEAN : SetActive(t, c, active, ok)
    \/ \E t \in Threads, ok \in BOOLEAN : AcquireScope(t, ok)
    \/ \E t \in Threads, ok \in BOOLEAN : ReleaseScope(t, ok)
    \/ \E t \in Threads : atomicId <= MaxRegistryId /\ CreateLock(t)
    \/ \E t \in Threads : CreateSteps(t)
    \/ \E t \in Threads, c \in Ids, ok1 \in BOOLEAN, ok2 \in BOOLEAN : Destroy(t, c, ok1, ok2)
    \/ \E t \in Threads : GetFunction(t)

SpecScope == Init /\ [][NextScope]_vars

\* Thread u cannot start create, getFunction or a state-changing setActive
BlockedOnLock(u) ==
    /\ ~ENABLED CreateLock(u)
    /\ getFunctionNeedsLock(World, u) => ~ENABLED GetFunction(u)
    /\ \A c \in Usable, active \in BOOLEAN :
          setActiveNeedsLock(World, u, c, active) => ~ENABLED SetActive(u, c, active, TRUE)

\* C35 as stated: while a thread is inside a slow-path transient scope (from
\* the acquire that activated the shared context until the release that ends
\* it) it holds the shared-context lock, and every other thread's create,
\* getFunction and state-changing setActive call is blocked.
C35_Original ==
    \A t \in Threads :
        slowScope[t] # 0 =>
            /\ mutex.owner = t
            /\ \A u \in Threads \ {t} : pc[u] = "idle" => BlockedOnLock(u)

----------------------------------------------------------------------------
\* The accesses to the list of unshared objects and to the weak_ptr that
\* locates it, with the registry mutex taken and released in steps of their own

\* Thread t enters a call: only its position and the registry change
Enters(t, at, access, owner) ==
    /\ pc' = [pc EXCEPT ![t] = at]
    /\ registry' = [owner |-> owner, at |-> [registry.at EXCEPT ![t] = access]]
    /\ UNCHANGED <<currentContext, transientContext, platCur, mutex, atomicId, created,
                   alive, shared, unsharedGlObjects, listOf, obj, scopes, run, last,
                   window, calls, slowScope, call>>

\* Thread t leaves its call and gives up the registry mutex if it holds it
Leaves(t) ==
    /\ registry' = [owner |-> IF registry.owner = t THEN NoThread ELSE registry.owner,
                    at |-> [registry.at EXCEPT ![t] = NoAccess]]
    /\ window' = window /\ slowScope' = slowScope

\* Impl::Impl reads the weak_ptr and, when it has expired, sets it to the
\* list it makes; it takes no mutex
ImplAccess ==
    [op |-> "Impl", weak |-> IF weakLock(listOf) = 0 THEN "write" ELSE "read",
     list |-> "none", h |-> "h0", restore |-> 0]

\* GraphicsContext::GraphicsContext reaches Impl::Impl of the shared context
BeginGraphicsContext(t) ==
    /\ shared = 0
    /\ pc[t] = "idle"
    /\ \A u \in Threads : pc[u] # "constructing"
    /\ atomicId <= MaxRegistryId
    /\ Enters(t, "constructing", ImplAccess, registry.owner)

\* ... and completes
EndGraphicsContext(t) ==
    /\ pc[t] = "constructing"
    /\ LET f == fetchAdd(atomicId)
           w == ImplCtor([World EXCEPT !.alive = @ \cup {f.value}], f.value)
       IN /\ atomicId' = f.next
          /\ created' = Append(created, f.value)
          /\ shared' = f.value
          /\ Commit(w) /\ Record("GraphicsContext", t, f.value, FALSE, w)
    /\ Leaves(t)
    /\ pc' = [pc EXCEPT ![t] = "idle"]
    /\ UNCHANGED <<obj, scopes>>

\* graphicsContext.makeContextType(context) in create reaches Impl::Impl
BeginMake(t) ==
    /\ pc[t] = "activated"
    /\ Enters(t, "making", ImplAccess, registry.owner)

\* ... and completes
EndMake(t) ==
    /\ pc[t] = "making"
    /\ LET f == fetchAdd(atomicId)
           w == ImplCtor([World EXCEPT !.alive = @ \cup {f.value}], f.value)
       IN /\ atomicId' = f.next
          /\ created' = Append(created, f.value)
          /\ obj' = [obj EXCEPT ![t] = f.value]
          /\ Commit(w) /\ Record("create:make", t, f.value, FALSE, w)
    /\ Leaves(t)
    /\ pc' = [pc EXCEPT ![t] = "made"]
    /\ UNCHANGED <<shared, scopes>>

\* registerUnsharedGlObject takes the registry mutex
BeginRegister(t, h) ==
    /\ pc[t] = "idle"
    /\ ~IsRegistered(h)
    /\ registry.owner = NoThread
    /\ Enters(t, "registering",
              [op |-> "register", weak |-> "read",
               list |-> IF ListExists(World) THEN "write" ELSE "none",
               h |-> h, restore |-> 0], t)

\* ... appends the entry and returns
EndRegister(t) ==
    /\ pc[t] = "registering"
    /\ registry.at[t].op = "register"
    /\ LET w == registerUnsharedGlObject(World, t, registry.at[t].h)
       IN Commit(w) /\ Record("register", t, currentContext[t].id, TRUE, w)
    /\ Leaves(t)
    /\ pc' = [pc EXCEPT ![t] = "idle"]
    /\ UNCHANGED <<atomicId, created, shared, obj, scopes>>

\* unregisterUnsharedGlObject takes the registry mutex
BeginUnregister(t, h) ==
    /\ pc[t] = "idle"
    /\ registry.owner = NoThread
    /\ Enters(t, "registering",
              [op |-> "unregister", weak |-> "read",
               list |-> IF ~ListExists(World) THEN "none"
                        ELSE IF findIf(unsharedGlObjects, currentContext[t].id, h, 1) # 0
                             THEN "write" ELSE "read",
               h |-> h, restore |-> 0], t)

\* ... erases the entry it finds and returns
EndUnregister(t) ==
    /\ pc[t] = "registering"
    /\ registry.at[t].op = "unregister"
    /\ LET w == unregisterUnsharedGlObject(World, t, registry.at[t].h)
       IN Commit(w) /\ Record("unregister", t, currentContext[t].id, FALSE, w)
    /\ Leaves(t)
    /\ pc' = [pc EXCEPT ![t] = "idle"]
    /\ UNCHANGED <<atomicId, created, shared, obj, scopes>>

\* cleanupUnsharedResources of context c remembers the context to restore,
\* activates c and takes the registry mutex
BeginCleanup(t, c, ok1) ==
    /\ pc[t] = "idle"
    /\ c \in Usable \ {shared}
    /\ ok1 \in Outcomes(setActiveNeedsLock(World, t, c, TRUE))
    /\ setActiveNeedsLock(World, t, c, TRUE) => CanLock(mutex, t)
    /\ registry.owner = NoThread
    /\ LET w == setActive(World, t, c, TRUE, ok1)
       IN Commit(w) /\ Record("cleanup:activate", t, c, TRUE, w)
    /\ registry' = [owner |-> t,
                    at |-> [registry.at EXCEPT ![t] =
                               [op |-> "cleanup", weak |-> "none", list |-> "write", h |-> "h0",
                                restore |-> IF c = currentContext[t].id THEN 0
                                            ELSE currentContext[t].ptr]]]
    /\ window' = window /\ slowScope' = slowScope
    /\ pc' = [pc EXCEPT ![t] = "cleaning"]
    /\ obj' = [obj EXCEPT ![t] = c]
    /\ UNCHANGED <<atomicId, created, shared, scopes>>

\* ... erases the entries of c, gives up the mutex and restores the context
EndCleanup(t, ok2) ==
    /\ pc[t] = "cleaning"
    /\ LET c == obj[t]
           contextToRestore == registry.at[t].restore
           e == [World EXCEPT !.objs = SelectSeq(@, LAMBDA o : o.contextId # c)]
           restores == contextToRestore # 0
       IN /\ ok2 \in Outcomes(restores /\ setActiveNeedsLock(e, t, contextToRestore, TRUE))
          /\ (restores /\ setActiveNeedsLock(e, t, contextToRestore, TRUE)) => CanLock(mutex, t)
          /\ \E w \in {IF restores THEN setActive(e, t, contextToRestore, TRUE, ok2) ELSE e} :
                Commit(w) /\ Record("cleanup", t, c, TRUE, w)
    /\ Leaves(t)
    /\ pc' = [pc EXCEPT ![t] = "destroying"]
    /\ UNCHANGED <<atomicId, created, shared, obj, scopes>>

\* The program with the calls on the list in steps
NextAccess ==
    \/ \E t \in Threads : BeginGraphicsContext(t)
    \/ \E t \in Threads : EndGraphicsContext(t)
    \/ \E t \in Threads, c \in Ids, active \in BOOLEAN, ok \in BOOLEAN : SetActive(t, c, active, ok)
    \/ \E t \in Threads : atomicId <= MaxRegistryId /\ CreateLock(t)
    \/ \E t \in Threads, ok \in BOOLEAN : CreateActivateShared(t, ok)
    \/ \E t \in Threads : BeginMake(t)
    \/ \E t \in Threads : EndMake(t)
    \/ \E t \in Threads, ok \in BOOLEAN : CreateDeactivateShared(t, ok)
    \/ \E t \in Threads, ok \in BOOLEAN, loaded \in BOOLEAN, ok1 \in BOOLEAN, ok2 \in BOOLEAN :
          (loaded \/ registry.owner = NoThread) /\ CreateInitialize(t, ok, loaded, ok1, ok2)
    \/ \E t \in Threads, c \in Ids, ok1 \in BOOLEAN : BeginCleanup(t, c, ok1)
    \/ \E t \in Threads, ok2 \in BOOLEAN : EndCleanup(t, ok2)
    \/ \E t \in Threads : DestroyFinish(t)
    \/ \E t \in Threads, h \in Registrable : BeginRegister(t, h)
    \/ \E t \in Threads : EndRegister(t)
    \/ \E t \in Threads, h \in Handles : BeginUnregister(t, h)
    \/ \E t \in Threads : EndUnregister(t)

SpecAccess == Init /\ [][NextAccess]_vars

\* Two accesses to the same object of which one is a write
Conflicting(x, y) == x # "none" /\ y # "none" /\ "write" \in {x, y}

\* C36 as stated: every access to the list of unshared objects and to the
\* weak reference that locates it (registration, unregistration, bulk
\* cleanup, the lookup-or-create of a context under construction) is made
\* while holding the registry mutex, so no two threads read and write the
\* list or the weak reference at the same time.
C36_Original ==
    \A t \in Threads :
        /\ (registry.at[t].weak # "none" \/ registry.at[t].list # "none") => registry.owner = t
        /\ \A u \in Threads \ {t} :
              /\ ~Conflicting(registry.at[t].weak, registry.at[u].weak)
              /\ ~Conflicting(registry.at[t].list, registry.at[u].list)

====
